---------------------------- MODULE Spec2Model ----------------------------
(***************************************************************************)
(* A model of the matching-and-aggregation pipeline of                     *)
(* analysis_pipeline/scripts: 01_cem_matching.py (time variables,          *)
(* pre-treatment features, coarsened exact matching, matched panel) and    *)
(* 02_semester_aggregation.py (semester aggregation, first differences).   *)
(*                                                                         *)
(* A data frame is a sequence of records (its rows, in row order).         *)
(* Floating-point columns are modelled by exact numbers: a number is a     *)
(* triple <<n, d, r>> with d > 0 standing for (n/d)^(1/r), r = 1 a         *)
(* rational and r = 2 the square root of a rational (a standard            *)
(* deviation).  <<0, 0, 0>> is NaN.  Rounding error is not modelled.       *)
(***************************************************************************)
EXTENDS Integers, Sequences, FiniteSets, TLC

VARIABLES
    pc,             \* the step the script has reached
    panel,          \* the monthly panel as loaded (load_panel)
    df,             \* the panel with its time variables
    treatment_seq,  \* the sequential index of the treatment month
    gene_features,  \* the gene-level feature table
    n_bins,         \* the n_bins argument of coarsened_exact_matching
    matched_genes,  \* the matched gene set
    panel_matched,  \* the matched monthly panel
    df_sem,         \* the semester panel
    alt_panel,      \* a second panel, equal to panel before the treatment month
    alt_features,   \* the gene-level feature table of alt_panel
    es_df,          \* the semester panel given to an event-study estimator
    outcome,        \* the outcome argument of the estimator
    calls_left,     \* the calls of the estimator its caller still makes
    period_idx,     \* the position of the loop over periods
    boot_coefs,     \* the bootstrap statistics of the period so far
    boot_genes,     \* the genes drawn in the last bootstrap replicate
    results,        \* the result rows so far, and the table returned
    returned,       \* how the call ended: "table", "None" or "raised"
    first_call,     \* what the previous call on the same arguments returned
    log,            \* the lines printed
    all_results,    \* the result set of the batch run
    pair_idx,       \* the (outcome, specification) pair the batch run is at
    args,           \* the command-line arguments of run_pipeline.py
    step_idx,       \* the position of run_pipeline's loop over the steps
    run_results,    \* the results list of run_pipeline's main
    success,        \* what a call of run_step did: it returned True or False
    doi_df          \* the DOI records with the time variables of 04_integrate_dois.py

\* the variables of the event-study script
esvars == <<es_df, outcome, calls_left, period_idx, boot_coefs, boot_genes, results,
            returned, first_call, log, all_results, pair_idx>>

\* the variables of run_pipeline.py and of 04_integrate_dois.py
runvars == <<args, step_idx, run_results, success, doi_df>>

\* the variables of the matching and aggregation scripts
cemvars == <<panel, df, treatment_seq, gene_features, n_bins, matched_genes,
             panel_matched, alt_panel, alt_features>>

vars == <<pc, panel, df, treatment_seq, gene_features, n_bins, matched_genes,
          panel_matched, df_sem, alt_panel, alt_features, esvars, runvars>>

---------------------------------------------------------------------------
(* Program constants *)

TREATMENT_YM == 738
N_QUANTILE_BINS == 10
MONTHS_PER_SEMESTER == 6

---------------------------------------------------------------------------
(* Bounds of the model *)

\* genes of a panel that runs through the whole pipeline
NGenes == 3
\* months of the pipeline panel that lie before the treatment month, at most
MaxBack == 2
\* genes of a gene-feature table given to coarsened_exact_matching directly
NCemGenes == 4
\* genes of a feature table whose bin codes are examined
NBinGenes == 3
\* genes of a panel given to compute_pre_treatment_features directly
NFeatGenes == 2
\* rows of a semester panel given to create_delta_variables directly, at most
MaxDeltaRows == 4
\* largest outcome count of a row of such a semester panel
MaxCount == 1
\* bootstrap replicates of a period (the script draws 200)
n_boot == 2

---------------------------------------------------------------------------
(* Exact numbers *)

NaN == <<0, 0, 0>>

IsNaN(x) == x[3] = 0

Abs(i) == IF i < 0 THEN -i ELSE i

RECURSIVE GCD(_, _)
GCD(a, b) == IF b = 0 THEN a ELSE GCD(b, a % b)

\* the rational n/d (d # 0) in lowest terms
Q(n, d) ==
    LET g == GCD(Abs(n), Abs(d))
        s == IF d < 0 THEN -1 ELSE 1
    IN  <<(s * n) \div g, (s * d) \div g, 1>>

Zero == Q(0, 1)
One == Q(1, 1)

\* the largest k in lo..hi with k * k <= n
RECURSIVE FloorSqrtIn(_, _, _)
FloorSqrtIn(n, lo, hi) ==
    IF lo = hi THEN lo
    ELSE IF (lo + hi + 1) \div 2 <= n \div ((lo + hi + 1) \div 2)
    THEN FloorSqrtIn(n, (lo + hi + 1) \div 2, hi)
    ELSE FloorSqrtIn(n, lo, (lo + hi + 1) \div 2 - 1)

ISqrt(n) == FloorSqrtIn(n, 0, n)
IsSquare(n) == ISqrt(n) * ISqrt(n) = n

\* the square root of a rational q >= 0
Sqrt(q) ==
    IF IsNaN(q) THEN NaN
    ELSE IF IsSquare(q[1]) /\ IsSquare(q[2])
    THEN <<ISqrt(q[1]), ISqrt(q[2]), 1>>
    ELSE <<q[1], q[2], 2>>

\* the numerator and the denominator of the square of a number
SqN(x) == IF x[3] = 2 THEN x[1] ELSE x[1] * x[1]
SqD(x) == IF x[3] = 2 THEN x[2] ELSE x[2] * x[2]

\* arithmetic of rationals; NaN propagates
RAdd(a, b) == IF IsNaN(a) \/ IsNaN(b) THEN NaN ELSE Q(a[1] * b[2] + b[1] * a[2], a[2] * b[2])
RSub(a, b) == IF IsNaN(a) \/ IsNaN(b) THEN NaN ELSE Q(a[1] * b[2] - b[1] * a[2], a[2] * b[2])
RMul(a, b) == IF IsNaN(a) \/ IsNaN(b) THEN NaN ELSE Q(a[1] * b[1], a[2] * b[2])

\* order of the non-negative numbers of a feature column
NumLess(x, y) == SqN(x) * SqD(y) < SqN(y) * SqD(x)
NumLeq(x, y) == ~NumLess(y, x)

\* Series.fillna(0)
FillNa0(x) == IF IsNaN(x) THEN Zero ELSE x

---------------------------------------------------------------------------
(* Sequences and frames *)

Range(s) == {s[i] : i \in DOMAIN s}

\* a sequence given by a rule, as a tuple of its values
AsSeq(f) == f \o <<>>

RECURSIVE SetToSortedSeq(_)
SetToSortedSeq(S) ==
    IF S = {} THEN <<>>
    ELSE LET m == CHOOSE x \in S : \A y \in S : x <= y
         IN  <<m>> \o SetToSortedSeq(S \ {m})

RECURSIVE SumInts(_)
SumInts(s) == IF s = <<>> THEN 0 ELSE Head(s) + SumInts(Tail(s))

RECURSIVE SumNums(_)
SumNums(s) == IF s = <<>> THEN Zero ELSE RAdd(Head(s), SumNums(Tail(s)))

MaxOf(S) == CHOOSE x \in S : \A y \in S : y <= x
MinOf(S) == CHOOSE x \in S : \A y \in S : x <= y

\* the rows of f[1], ..., f[n], one after the other
RECURSIVE Concat(_, _)
Concat(f, n) == IF n = 0 THEN <<>> ELSE Concat(f, n - 1) \o f[n]

\* the rows of a frame that belong to gene g, in row order
RowsOfGene(frame, g) == SelectSeq(frame, LAMBDA r : r.gene_id = g)

\* the gene_ids of a frame in ascending order (the order of a groupby)
GeneIds(frame) == SetToSortedSeq({frame[i].gene_id : i \in DOMAIN frame})


---------------------------------------------------------------------------
(* 01_cem_matching.py: create_time_variables *)

\* treated = 1 if num_deposits == 0
TreatedFlagNonZero(num_deposits) == IF num_deposits # 0 THEN 1 ELSE 0
TreatedFlag(num_deposits) == IF num_deposits = 0 THEN 1 ELSE 0

YmMin(p) == MinOf({p[i].ym : i \in DOMAIN p})

TreatmentSeq(p) == TREATMENT_YM - YmMin(p) + 1

\* the panel with ym_seq, treated, post, semester and rel_semester added
\* (quarter and rel_quarter, which no later step reads, are left out)
CreateTimeVariables(p) ==
    LET ym_min == YmMin(p)
        tseq == TreatmentSeq(p)
        treatment_semester == (tseq - 1) \div MONTHS_PER_SEMESTER
        Row(r) ==
            LET ym_seq == r.ym - ym_min + 1
                semester == (ym_seq - 1) \div MONTHS_PER_SEMESTER
            IN  r @@ [ym_seq |-> ym_seq,
                      treated |-> TreatedFlag(r.num_deposits),
                      post |-> IF ym_seq >= tseq THEN 1 ELSE 0,
                      semester |-> semester,
                      rel_semester |-> semester - treatment_semester]
    IN  AsSeq([i \in DOMAIN p |-> Row(p[i])])

---------------------------------------------------------------------------
(* 01_cem_matching.py: compute_pre_treatment_features *)

\* df[df['ym_seq'] < treatment_seq]
PreDfInclusive(d, tseq) == SelectSeq(d, LAMBDA r : r.ym_seq <= tseq)
PreDf(d, tseq) == SelectSeq(d, LAMBDA r : r.ym_seq < tseq)

\* groupby mean of an integer column
Mean(xs) == IF xs = <<>> THEN NaN ELSE Q(SumInts(xs), Len(xs))

\* groupby std (ddof = 1): NaN for fewer than two observations
Std(xs) ==
    LET n == Len(xs)
        s1 == SumInts(xs)
        s2 == SumInts([i \in DOMAIN xs |-> xs[i] * xs[i]])
    IN  IF n < 2 THEN NaN ELSE Sqrt(Q(n * s2 - s1 * s1, n * (n - 1)))

Column(rows, col) == AsSeq([i \in DOMAIN rows |-> rows[i][col]])

\* one row per gene of pre_df: the means and the standard deviation
PreFeatures(pre_df) ==
    LET ids == GeneIds(pre_df)
        Row(g) ==
            LET rows == RowsOfGene(pre_df, g)
            IN  [gene_id |-> g,
                 pre_mean_papers |-> Mean(Column(rows, "n_papers")),
                 pre_sd_papers |-> FillNa0(Std(Column(rows, "n_papers"))),
                 pre_mean_newcom |-> Mean(Column(rows, "n_newcomer_papers")),
                 pre_mean_veteran |-> Mean(Column(rows, "n_veteran_papers")),
                 pre_mean_top10 |-> Mean(Column(rows, "n_top10_y"))]
    IN  AsSeq([k \in DOMAIN ids |-> Row(ids[k])])

\* gene_meta: the first treated value of each gene of df
\* (average_plddt, gene_name and protein_id, carried along unread, are left out)
GeneMetaTreated(d, g) == RowsOfGene(d, g)[1].treated

\* gene_features.merge(gene_meta, on='gene_id', how='left'), then fillna(0)
ComputePreTreatmentFeatures(d, tseq) ==
    LET feats == PreFeatures(PreDf(d, tseq))
        Row(f) ==
            [gene_id |-> f.gene_id,
             pre_mean_papers |-> FillNa0(f.pre_mean_papers),
             pre_sd_papers |-> FillNa0(f.pre_sd_papers),
             pre_mean_newcom |-> FillNa0(f.pre_mean_newcom),
             pre_mean_veteran |-> FillNa0(f.pre_mean_veteran),
             pre_mean_top10 |-> FillNa0(f.pre_mean_top10),
             treated |-> GeneMetaTreated(d, f.gene_id)]
    IN  AsSeq([k \in DOMAIN feats |-> Row(feats[k])])

---------------------------------------------------------------------------
(* 01_cem_matching.py: coarsened_exact_matching, the coarsening *)

RECURSIVE InsertNum(_, _)
InsertNum(x, s) ==
    IF s = <<>> THEN <<x>>
    ELSE IF NumLeq(x, Head(s)) THEN <<x>> \o s
    ELSE <<Head(s)>> \o InsertNum(x, Tail(s))

RECURSIVE SortNums(_)
SortNums(s) == IF s = <<>> THEN <<>> ELSE InsertNum(Head(s), SortNums(Tail(s)))

\* A bin edge.  Series.quantile interpolates linearly between the two order
\* statistics lo <= hi around the position: lo + f * (hi - lo), 0 <= f < 1.
\* The edge is evaluated when lo and hi are rationals; between two numbers
\* one of which is a square root it is kept as the triple (lo, hi, f), which
\* lies strictly between lo and hi.
PointEdge(v) == [lo |-> v, hi |-> v, f |-> Zero]

Lerp(lo, hi, f) ==
    IF f = Zero \/ lo = hi THEN PointEdge(lo)
    ELSE IF lo[3] = 1 /\ hi[3] = 1
         THEN PointEdge(RAdd(lo, RMul(f, RSub(hi, lo))))
         ELSE [lo |-> lo, hi |-> hi, f |-> f]

\* edge < x, for x a value of the column the edge was computed from (no
\* value of the column lies strictly between two adjacent order statistics)
EdgeLess(e, x) == IF e.f = Zero THEN NumLess(e.lo, x) ELSE NumLeq(e.hi, x)

\* the quantile i/q of the n sorted values s, at position i * (n - 1) / q
QuantileEdge(s, n, q, i) ==
    Lerp(s[(i * (n - 1)) \div q + 1],
         s[IF (i * (n - 1)) \div q + 2 <= n THEN (i * (n - 1)) \div q + 2 ELSE n],
         Q((i * (n - 1)) % q, q))

QuantileEdgesSorted(s, q) == AsSeq([k \in 1..(q + 1) |-> QuantileEdge(s, Len(s), q, k - 1)])

\* x.quantile(np.linspace(0, 1, q + 1)): the q + 1 edges, ascending
QuantileEdges(vals, q) == QuantileEdgesSorted(SortNums(vals), q)

\* algos.unique of an ascending sequence
RECURSIVE Unique(_)
Unique(s) ==
    IF Len(s) < 2 THEN s
    ELSE IF s[1] = s[2] THEN Unique(Tail(s))
    ELSE <<s[1]>> \o Unique(Tail(s))

\* _bins_to_cuts: len(unique_bins) < len(bins) and len(bins) != 2
HasDuplicates(bins, unique_bins) == Len(unique_bins) < Len(bins) /\ Len(bins) # 2

\* _bins_to_cuts: the edges that are used (duplicates = 'drop')
DropFrom(bins, unique_bins) == IF HasDuplicates(bins, unique_bins) THEN unique_bins ELSE bins
DropDuplicates(bins) == DropFrom(bins, Unique(bins))

\* bins.searchsorted(x, side='left')
SearchSortedFromRight(bins, x) == Cardinality({k \in DOMAIN bins : ~EdgeLess(bins[k], x)})
SearchSorted(bins, x) == Cardinality({k \in DOMAIN bins : EdgeLess(bins[k], x)})

\* a value outside every interval is NaN; labels=False gives ids - 1
CodeOfIds(ids, nbins) == IF ids = nbins \/ ids = 0 THEN NaN ELSE Q(ids - 1, 1)

\* _bins_to_cuts(labels=False, right=True), the lowest edge included when
\* include_lowest
BinCode(bins, x, include_lowest) ==
    CodeOfIds(IF include_lowest /\ bins[1] = PointEdge(x) THEN 1 ELSE SearchSorted(bins, x),
              Len(bins))

Codes(bins, vals, include_lowest) ==
    AsSeq([i \in DOMAIN vals |-> BinCode(bins, vals[i], include_lowest)])

\* pd.qcut(x, q, labels=False, duplicates=...) computed from its edges: it
\* raises ValueError ("Bin edges must be unique") only for duplicates = 'raise'
QcutFromEdges(bins, vals, duplicates) ==
    [raised |-> duplicates = "raise" /\ HasDuplicates(bins, Unique(bins)),
     codes |-> Codes(DropDuplicates(bins), vals, TRUE)]

Qcut(vals, q, duplicates) == QcutFromEdges(QuantileEdges(vals, q), vals, duplicates)

\* pd.cut(x, bins=k, labels=False, duplicates='drop'): k intervals of equal
\* width over [lo, hi], the lowest edge moved down by adj
CutEdges(lo, hi, k, adj) ==
    AsSeq([i \in 1..(k + 1) |->
        PointEdge(IF i = 1 THEN RSub(lo, adj)
                  ELSE RAdd(lo, RMul(Q(i - 1, k), RSub(hi, lo))))])

\* 0.1% of |mn|, or 0.001 when mn is 0
CutPad(mn) == IF mn = Zero THEN Q(1, 1000) ELSE RMul(Q(1, 1000), mn)

\* the range is widened by 0.1% on both sides when mn = mx, and else its
\* lowest edge is moved down by 0.1% of the range
CutMinMax(mn, mx, vals, k) ==
    IF mn = mx
    THEN Codes(DropDuplicates(CutEdges(RSub(mn, CutPad(mn)), RAdd(mx, CutPad(mx)), k, Zero)),
               vals, FALSE)
    ELSE Codes(DropDuplicates(CutEdges(mn, mx, k, RMul(Q(1, 1000), RSub(mx, mn)))),
               vals, FALSE)

CutSorted(s, vals, k) == CutMinMax(s[1], s[Len(s)], vals, k)

Cut(vals, k) == CutSorted(SortNums(vals), vals, k)

NUnique(vals) == Cardinality(Range(vals))

\* try: pd.qcut(...) except ValueError: pd.cut(..., bins=min(n_bins, nunique))
TryQcut(res, vals, q) ==
    IF res.raised
    THEN Cut(vals, IF q < NUnique(vals) THEN q ELSE NUnique(vals))
    ELSE res.codes

\* .fillna(0).astype(int)
FillCodes(codes) == AsSeq([i \in DOMAIN codes |-> FillNa0(codes[i])[1]])

\* one pass of the coarsening loop: the bin code of every gene
Coarsen(vals, q) == FillCodes(TryQcut(Qcut(vals, q, "drop"), vals, q))

match_vars ==
    <<"pre_mean_papers", "pre_mean_newcom", "pre_mean_veteran",
      "pre_mean_top10", "pre_sd_papers">>

\* the stratum of every gene: its bin codes, one per matching variable
\* (the code joins them with '_' into a string)
StrataOfCodes(codes, n) == AsSeq([i \in 1..n |-> [v \in DOMAIN match_vars |-> codes[v][i]]])

Strata(gf, q) ==
    StrataOfCodes(AsSeq([v \in DOMAIN match_vars |-> Coarsen(Column(gf, match_vars[v]), q)]),
                  Len(gf))

---------------------------------------------------------------------------
(* 01_cem_matching.py: coarsened_exact_matching, support and weights *)

\* stratum_counts: n_treated (the sum of treated), n_total, n_control
NTreated(rows, st) == Cardinality({i \in DOMAIN rows : rows[i].stratum = st /\ rows[i].treated = 1})
NTotal(rows, st) == Cardinality({i \in DOMAIN rows : rows[i].stratum = st})
NControl(rows, st) == NTotal(rows, st) - NTreated(rows, st)

\* (n_treated > 0) & (n_control > 0)
CommonSupportEither(rows, st) == NTreated(rows, st) > 0 \/ NControl(rows, st) > 0
CommonSupport(rows, st) == NTreated(rows, st) > 0 /\ NControl(rows, st) > 0

\* np.where(treated == 1, 1.0, n_treated / n_control)
StratumWeightSwapped(treated, n_treated, n_control) ==
    IF treated = 0 THEN One ELSE Q(n_treated, n_control)
StratumWeight(treated, n_treated, n_control) ==
    IF treated = 1 THEN One ELSE Q(n_treated, n_control)

\* the sum of cem_weight over the rows with the given treated value
SumWeight(rows, t) ==
    SumNums(Column(SelectSeq(rows, LAMBDA r : r.treated = t), "cem_weight"))

\* sum_treated / sum_control, a division of numpy float64 scalars: 0/0 is
\* NaN (with a RuntimeWarning), not an exception
ScalarDivideRaising(a, b) ==
    IF b = Zero THEN [raised |-> TRUE, value |-> NaN]
    ELSE [raised |-> FALSE, value |-> Q(a[1] * b[2], a[2] * b[1])]
ScalarDivide(a, b) ==
    IF b = Zero THEN [raised |-> FALSE, value |-> NaN]
    ELSE [raised |-> FALSE, value |-> Q(a[1] * b[2], a[2] * b[1])]

\* the factor of the normalisation of the control weights
RescaleFactorByCount(rows) ==
    ScalarDivide(Q(Cardinality({i \in DOMAIN rows : rows[i].treated = 1}), 1),
                 Q(Cardinality({i \in DOMAIN rows : rows[i].treated = 0}), 1))
RescaleFactor(rows) == ScalarDivide(SumWeight(rows, 1), SumWeight(rows, 0))

\* df with its stratum column
AddStratum(gf, strata) == AsSeq([i \in DOMAIN gf |-> gf[i] @@ [stratum |-> strata[i]]])

WithStratum(gf, q) == AddStratum(gf, Strata(gf, q))

\* df[df['stratum'].isin(common_support)], merged with stratum_counts, with
\* the weight of each gene in its stratum
AddWeight(r, n_treated, n_control) ==
    r @@ [n_treated |-> n_treated, n_control |-> n_control,
          cem_weight |-> StratumWeight(r.treated, n_treated, n_control)]

AddWeights(supported, ws) ==
    AsSeq([i \in DOMAIN supported |->
        AddWeight(supported[i], NTreated(ws, supported[i].stratum),
                  NControl(ws, supported[i].stratum))])

WeightedSupport(ws) ==
    AddWeights(SelectSeq(ws, LAMBDA r : CommonSupport(ws, r.stratum)), ws)

\* df_matched.loc[treated == 0, 'cem_weight'] *= factor
Rescale(rows, factor) ==
    AsSeq([i \in DOMAIN rows |->
        IF rows[i].treated = 0
        THEN [rows[i] EXCEPT !.cem_weight = RMul(@, factor)]
        ELSE rows[i]])

\* the matched gene set: [raised |-> an exception was raised, rows |-> df_matched]
CemResult(weighted, factor) ==
    [raised |-> factor.raised, rows |-> Rescale(weighted, factor.value)]

CemOfWeighted(weighted) == CemResult(weighted, RescaleFactor(weighted))

CoarsenedExactMatching(gf, q) == CemOfWeighted(WeightedSupport(WithStratum(gf, q)))

---------------------------------------------------------------------------
(* 01_cem_matching.py: create_matched_panel *)

\* the missing value of a merged column: NaN for cem_weight, and
NullStratum == <<>>
NullInt == -1

\* panel_df[panel_df['gene_id'].isin(matched_gene_ids)]
KeepAllGenes(panel_df, matched) == panel_df
KeepFirstMonthOnly(panel_df, matched) ==
    SelectSeq(panel_df, LAMBDA r :
        /\ \E k \in DOMAIN matched : matched[k].gene_id = r.gene_id
        /\ r.ym = panel_df[1].ym)
KeepMatchedGenes(panel_df, matched) ==
    SelectSeq(panel_df, LAMBDA r : \E k \in DOMAIN matched : matched[k].gene_id = r.gene_id)

\* a row without its treated column
DropTreated(r) == [c \in (DOMAIN r) \ {"treated"} |-> r[c]]

\* the rows a panel row gives in merge(matched_genes[weight_cols],
\* on='gene_id', how='left'): one per row of matched_genes with its gene_id,
\* or one with missing values when there is none
MergedRows(r, hits) ==
    IF hits = <<>>
    THEN <<DropTreated(r) @@ [cem_weight |-> NaN, stratum |-> NullStratum, treated |-> NullInt]>>
    ELSE AsSeq([k \in DOMAIN hits |->
            DropTreated(r) @@ [cem_weight |-> hits[k].cem_weight,
                               stratum |-> hits[k].stratum,
                               treated |-> hits[k].treated]])

RECURSIVE MergeLeft(_, _)
MergeLeft(rows, matched) ==
    IF rows = <<>> THEN <<>>
    ELSE MergedRows(Head(rows), RowsOfGene(matched, Head(rows).gene_id))
            \o MergeLeft(Tail(rows), matched)

CreateMatchedPanel(panel_df, matched) ==
    MergeLeft(KeepMatchedGenes(panel_df, matched), matched)

---------------------------------------------------------------------------
(* 02_semester_aggregation.py: aggregate_to_semester *)

\* the groups of groupby(['gene_id', 'semester']), keys ascending
SemestersOf(frame, g) ==
    SetToSortedSeq({frame[i].semester : i \in {k \in DOMAIN frame : frame[k].gene_id = g}})

GroupRows(frame, g, sem) == SelectSeq(frame, LAMBDA r : r.gene_id = g /\ r.semester = sem)

\* 'first': the first value of the group that is not missing
RECURSIVE FirstValid(_, _)
FirstValid(xs, null) ==
    IF xs = <<>> THEN null
    ELSE IF Head(xs) # null THEN Head(xs)
    ELSE FirstValid(Tail(xs), null)

\* 'sum' and 'max' of an integer column
CountInsteadOfSum(rows, col) == Len(rows)
MaxColInsteadOfSum(rows, col) == MaxOf(Range(Column(rows, col)))
SumCol(rows, col) == SumInts(Column(rows, col))
MaxCol(rows, col) == MaxOf(Range(Column(rows, col)))

\* the columns of a frame (of its first row: every row has the same)
Columns(frame) == IF frame = <<>> THEN {} ELSE DOMAIN frame[1]

\* the keys of agg_dict: the outcome counts are summed, post takes the
\* maximum and the other columns the first value
SumColumns ==
    {"n_papers", "n_newcomer_papers", "n_veteran_papers", "n_top10_y", "n_top25_y",
     "n_top05_y", "unique_mesh_count", "new_mesh_count"}
FirstColumns ==
    {"treated", "cem_weight", "stratum", "gene_name", "protein_id", "average_plddt",
     "num_deposits", "rel_semester"}
NullOf(col) ==
    IF col = "cem_weight" THEN NaN ELSE IF col = "stratum" THEN NullStratum ELSE NullInt

AggOf(rows, col) ==
    IF col \in SumColumns THEN SumCol(rows, col)
    ELSE IF col = "post" THEN MaxCol(rows, col)
    ELSE FirstValid(Column(rows, col), NullOf(col))

\* agg_dict = {k: v for k, v in agg_dict.items() if k in df.columns}
AggColumns(frame) == (SumColumns \cup FirstColumns \cup {"post"}) \cap Columns(frame)

\* the row of one group: the two keys and the aggregated columns
SemesterRow(g, sem, rows) ==
    [col \in AggColumns(rows) |-> AggOf(rows, col)] @@ [gene_id |-> g, semester |-> sem]

GeneSemesterRows(frame, g, sems) ==
    AsSeq([k \in DOMAIN sems |-> SemesterRow(g, sems[k], GroupRows(frame, g, sems[k]))])

RECURSIVE AggregateGenes(_, _)
AggregateGenes(frame, ids) ==
    IF ids = <<>> THEN <<>>
    ELSE GeneSemesterRows(frame, Head(ids), SemestersOf(frame, Head(ids)))
            \o AggregateGenes(frame, Tail(ids))

AggregateToSemester(frame) == AggregateGenes(frame, GeneIds(frame))

\* print(... df_sem['rel_semester'].min() ...) is a KeyError without the
\* column (a frame without rows still has its columns)
AggregateRaises(frame) == frame # <<>> /\ "rel_semester" \notin Columns(frame)

---------------------------------------------------------------------------
(* 02_semester_aggregation.py: create_delta_variables *)

OUTCOMES == <<"n_papers", "n_newcomer_papers", "n_veteran_papers", "n_top10_y">>

\* df.sort_values(['gene_id', 'semester'])
RowBefore(r, t) == r.gene_id < t.gene_id \/ (r.gene_id = t.gene_id /\ r.semester < t.semester)

RECURSIVE InsertRow(_, _)
InsertRow(r, s) ==
    IF s = <<>> THEN <<r>>
    ELSE IF ~RowBefore(r, Head(s)) THEN <<Head(s)>> \o InsertRow(r, Tail(s))
    ELSE <<r>> \o s

RECURSIVE SortRowsRev(_)
SortRowsRev(s) == IF s = <<>> THEN <<>> ELSE InsertRow(s[Len(s)], SortRowsRev(SubSeq(s, 1, Len(s) - 1)))

NoSort(frame) == frame
SortByGeneSemester(frame) == SortRowsRev(frame)

\* np.arcsinh(y), kept as the number <<y, 1, 3>>; the difference of two of
\* them is kept as the pair of them, and is 0 when they are equal
Asinh(y) == <<y, 1, 3>>
AsinhDiff(y, prev) == IF y = prev THEN <<Zero>> ELSE <<Asinh(y), Asinh(prev)>>

\* the row before row i among the rows of its gene, 0 when it is the first
PrevOfGene(frame, i) ==
    IF i > 1 /\ frame[i - 1].gene_id = frame[i].gene_id THEN i - 1 ELSE 0

\* groupby('gene_id')[y].diff()
Diff(frame, i, y) ==
    IF PrevOfGene(frame, i) = 0 THEN NaN
    ELSE Q(frame[i][y] - frame[PrevOfGene(frame, i)][y], 1)

DiffAsinh(frame, i, y) ==
    IF PrevOfGene(frame, i) = 0 THEN <<NaN>>
    ELSE AsinhDiff(frame[i][y], frame[PrevOfGene(frame, i)][y])

\* the outcomes that are columns of the frame: the others are skipped
OutcomesIn(frame) == {y \in Range(OUTCOMES) : y \in Columns(frame)}

\* the columns asinh_y, D_y and D_asinh_y of row i, for every such outcome y
DeltaColumns(frame, i) ==
    [col \in {"asinh_" \o y : y \in OutcomesIn(frame)} |->
        Asinh(frame[i][CHOOSE y \in OutcomesIn(frame) : col = "asinh_" \o y])]
    @@ [col \in {"D_" \o y : y \in OutcomesIn(frame)} |->
        Diff(frame, i, CHOOSE y \in OutcomesIn(frame) : col = "D_" \o y)]
    @@ [col \in {"D_asinh_" \o y : y \in OutcomesIn(frame)} |->
        DiffAsinh(frame, i, CHOOSE y \in OutcomesIn(frame) : col = "D_asinh_" \o y)]

AddDeltas(sorted) == AsSeq([i \in DOMAIN sorted |-> sorted[i] @@ DeltaColumns(sorted, i)])

CreateDeltaVariables(frame) == AddDeltas(SortByGeneSemester(frame))

\* n_valid = df['D_n_papers'].notna().sum() is a KeyError without the column
DeltaRaises(frame) == frame # <<>> /\ "n_papers" \notin Columns(frame)

---------------------------------------------------------------------------
(* The steps of the scripts *)

Unset == <<>>

\* run_pipeline.py and the DOI script have not run
RunUnset ==
    /\ args = Unset /\ step_idx = 0 /\ run_results = Unset /\ success = FALSE
    /\ doi_df = Unset

\* the event-study script has not run
EsUnset ==
    /\ es_df = Unset /\ outcome = "" /\ calls_left = 0 /\ period_idx = 0
    /\ boot_coefs = Unset /\ boot_genes = Unset /\ results = Unset
    /\ returned = "" /\ first_call = Unset /\ log = Unset /\ all_results = Unset
    /\ pair_idx = 0
    /\ RunUnset

\* main of 01_cem_matching.py: df, treatment_seq = create_time_variables(df)
DoCreateTimeVariables ==
    /\ pc = "loaded"
    /\ df' = CreateTimeVariables(panel)
    /\ treatment_seq' = TreatmentSeq(panel)
    /\ pc' = "time_variables"
    /\ UNCHANGED <<panel, gene_features, n_bins, matched_genes, panel_matched,
                   df_sem, alt_panel, alt_features>>
    /\ UNCHANGED <<esvars, runvars>>

\* main of 01_cem_matching.py: compute_pre_treatment_features(df, treatment_seq)
DoComputePreTreatmentFeatures ==
    /\ pc = "time_variables"
    /\ gene_features' = ComputePreTreatmentFeatures(df, treatment_seq)
    /\ pc' = "features"
    /\ UNCHANGED <<panel, df, treatment_seq, n_bins, matched_genes, panel_matched,
                   df_sem, alt_panel, alt_features>>
    /\ UNCHANGED <<esvars, runvars>>

\* main of 01_cem_matching.py: coarsened_exact_matching(gene_features)
DoCoarsenedExactMatching ==
    /\ pc = "features"
    /\ \E res \in {CoarsenedExactMatching(gene_features, n_bins)} :
        /\ matched_genes' = IF res.raised THEN matched_genes ELSE res.rows
        /\ pc' = IF res.raised THEN "raised" ELSE "matched_genes"
    /\ UNCHANGED <<panel, df, treatment_seq, gene_features, n_bins,
                   panel_matched, df_sem, alt_panel, alt_features>>
    /\ UNCHANGED <<esvars, runvars>>

\* main of 01_cem_matching.py: create_matched_panel(df, matched_genes)
DoCreateMatchedPanel ==
    /\ pc = "matched_genes"
    /\ panel_matched' = CreateMatchedPanel(df, matched_genes)
    /\ pc' = "panel_matched"
    /\ UNCHANGED <<panel, df, treatment_seq, gene_features, n_bins, matched_genes,
                   df_sem, alt_panel, alt_features>>
    /\ UNCHANGED <<esvars, runvars>>

\* main of 02_semester_aggregation.py: aggregate_to_semester(df), on the
\* matched monthly panel that 01_cem_matching.py saved
DoAggregateToSemester ==
    /\ pc = "panel_matched"
    /\ IF AggregateRaises(panel_matched)
       THEN df_sem' = df_sem /\ pc' = "raised"
       ELSE df_sem' = AggregateToSemester(panel_matched) /\ pc' = "semester"
    /\ UNCHANGED <<panel, df, treatment_seq, gene_features, n_bins, matched_genes,
                   panel_matched, alt_panel, alt_features>>
    /\ UNCHANGED <<esvars, runvars>>

\* main of 02_semester_aggregation.py: create_delta_variables(df_sem)
DoCreateDeltaVariables ==
    /\ pc = "semester"
    /\ IF DeltaRaises(df_sem)
       THEN df_sem' = df_sem /\ pc' = "raised"
       ELSE df_sem' = CreateDeltaVariables(df_sem) /\ pc' = "delta"
    /\ UNCHANGED <<panel, df, treatment_seq, gene_features, n_bins, matched_genes,
                   panel_matched, alt_panel, alt_features>>
    /\ UNCHANGED <<esvars, runvars>>

---------------------------------------------------------------------------
(* The two scripts on a monthly panel *)

\* a panel covers one semester and the first month of the next
PipelineMonths == MONTHS_PER_SEMESTER + 1

\* the outcome counts of a month without and with papers
Quiet == [n_papers |-> 0, n_newcomer_papers |-> 0, n_veteran_papers |-> 0, n_top10_y |-> 0]
Busy == [n_papers |-> 2, n_newcomer_papers |-> 1, n_veteran_papers |-> 1, n_top10_y |-> 1]

\* the months with papers of a gene, as positions in the panel
ActivePatterns == {{}, {1}, {1, 2}, {2, PipelineMonths}}
PipelineDeposits == {0, 2}

\* the rows of gene g: one for every month of the panel, num_deposits constant
PipelineGeneRows(g, ym_min, num_deposits, active) ==
    AsSeq([k \in 1..PipelineMonths |->
        (IF k \in active THEN Busy ELSE Quiet)
            @@ [gene_id |-> g, ym |-> ym_min + k - 1, num_deposits |-> num_deposits]])

PipelineGenes == [num_deposits : PipelineDeposits, active : ActivePatterns]

\* the balanced panel of NGenes genes that starts back months before the
\* treatment month, sorted by gene_id and ym
PipelinePanel(back, c) ==
    Concat([g \in 1..NGenes |->
                PipelineGeneRows(g, TREATMENT_YM - back, c[g].num_deposits, c[g].active)],
           NGenes)

Init ==
    /\ pc = "loaded"
    /\ \E back \in 1..MaxBack, c \in [1..NGenes -> PipelineGenes] :
            panel = PipelinePanel(back, c)
    /\ df = Unset /\ treatment_seq = 0 /\ gene_features = Unset /\ n_bins = N_QUANTILE_BINS
    /\ matched_genes = Unset /\ panel_matched = Unset /\ df_sem = Unset
    /\ alt_panel = Unset /\ alt_features = Unset
    /\ EsUnset

Next ==
    \/ DoCreateTimeVariables
    \/ DoComputePreTreatmentFeatures
    \/ DoCoarsenedExactMatching
    \/ DoCreateMatchedPanel
    \/ DoAggregateToSemester
    \/ DoCreateDeltaVariables

Spec == Init /\ [][Next]_vars

\* the same on panels of a treated gene 1 and a control gene 2 that start
\* back months before the treatment month and end one month after it; the
\* two genes have the same count in every month before the treatment month
StartBacks == {1, 5, MONTHS_PER_SEMESTER, 7, 2 * MONTHS_PER_SEMESTER}
StartChoices == [pre : {0, 1}, post1 : {0, 1, 2}, post2 : {0, 1, 2}]

StartCounts(n) ==
    [n_papers |-> n, n_newcomer_papers |-> n, n_veteran_papers |-> 0, n_top10_y |-> 0]

StartGeneRows(g, back, c) ==
    AsSeq([k \in 1..(back + 2) |->
        StartCounts(IF k <= back THEN c.pre ELSE IF g = 1 THEN c.post1 ELSE c.post2)
            @@ [gene_id |-> g, ym |-> TREATMENT_YM - back + k - 1,
                num_deposits |-> IF g = 1 THEN 0 ELSE 2]])

StartPanel(back, c) == StartGeneRows(1, back, c) \o StartGeneRows(2, back, c)

InitStart ==
    /\ pc = "loaded"
    /\ \E back \in StartBacks, c \in StartChoices : panel = StartPanel(back, c)
    /\ df = Unset /\ treatment_seq = 0 /\ gene_features = Unset /\ n_bins = N_QUANTILE_BINS
    /\ matched_genes = Unset /\ panel_matched = Unset /\ df_sem = Unset
    /\ alt_panel = Unset /\ alt_features = Unset
    /\ EsUnset

SpecStart == InitStart /\ [][Next]_vars

---------------------------------------------------------------------------
(* create_delta_variables on a semester panel whose rows are in any order *)

DeltaGenes == {1, 2}
DeltaSemesters == {0, 1, 2}
DeltaKeys == DeltaGenes \X DeltaSemesters

\* the orders of up to MaxDeltaRows rows with distinct (gene_id, semester)
DeltaKeySeqs ==
    {ks \in UNION {[1..n -> DeltaKeys] : n \in 1..MaxDeltaRows} :
        \A i, j \in DOMAIN ks : ks[i] = ks[j] => i = j}

DeltaRow(key, v) ==
    [gene_id |-> key[1], semester |-> key[2],
     n_papers |-> v, n_newcomer_papers |-> v,
     n_veteran_papers |-> 0, n_top10_y |-> MaxCount - v]

\* the semester panel with its rows in order ks and paper counts v
DeltaTable(ks, v) == AsSeq([i \in DOMAIN ks |-> DeltaRow(ks[i], v[i])])

\* a semester panel with paper counts 0..MaxCount
InitDelta ==
    /\ pc = "semester"
    /\ \E ks \in DeltaKeySeqs :
        \E v \in [DOMAIN ks -> 0..MaxCount] : df_sem = DeltaTable(ks, v)
    /\ panel = Unset /\ df = Unset /\ treatment_seq = 0 /\ gene_features = Unset
    /\ n_bins = N_QUANTILE_BINS
    /\ matched_genes = Unset /\ panel_matched = Unset
    /\ alt_panel = Unset /\ alt_features = Unset
    /\ EsUnset

NextDelta == DoCreateDeltaVariables

SpecDelta == InitDelta /\ [][NextDelta]_vars

---------------------------------------------------------------------------
(* The semester script on a matched panel that may lack a column *)

ColsGenes == 2
\* two months of the semester before the treatment month, then that month
ColsMonths == <<TREATMENT_YM - 2, TREATMENT_YM - 1, TREATMENT_YM>>
ColsSemester(k) == IF k < Len(ColsMonths) THEN 0 ELSE 1

\* the columns a panel is tried without; gene_id stands for none dropped
ColsDropped == {"gene_id", "n_papers", "n_top10_y", "cem_weight", "treated", "rel_semester"}

Without(r, col) == [c \in DOMAIN r \ {col} |-> r[c]]

ColsRow(g, k, v) ==
    [gene_id |-> g, ym |-> ColsMonths[k], num_deposits |-> 2 - g,
     n_papers |-> v, n_newcomer_papers |-> v, n_veteran_papers |-> 0,
     n_top10_y |-> MaxCount - v,
     semester |-> ColsSemester(k), rel_semester |-> ColsSemester(k) - 1,
     post |-> ColsSemester(k), cem_weight |-> One, stratum |-> <<0, 0>>, treated |-> 2 - g]

ColsGeneOf(i) == ((i - 1) \div Len(ColsMonths)) + 1
ColsMonthOf(i) == ((i - 1) % Len(ColsMonths)) + 1

\* the matched monthly panel of ColsGenes genes with paper counts v, sorted by
\* gene_id and ym, without the column dropped
ColsPanel(v, dropped) ==
    AsSeq([i \in 1..(ColsGenes * Len(ColsMonths)) |->
        IF dropped = "gene_id"
        THEN ColsRow(ColsGeneOf(i), ColsMonthOf(i), v[i])
        ELSE Without(ColsRow(ColsGeneOf(i), ColsMonthOf(i), v[i]), dropped)])

InitCols ==
    /\ pc = "panel_matched"
    /\ \E v \in [1..(ColsGenes * Len(ColsMonths)) -> 0..MaxCount] :
        \E dropped \in ColsDropped : panel_matched = ColsPanel(v, dropped)
    /\ df_sem = Unset
    /\ panel = Unset /\ df = Unset /\ treatment_seq = 0
    /\ gene_features = Unset /\ n_bins = N_QUANTILE_BINS /\ matched_genes = Unset
    /\ alt_panel = Unset /\ alt_features = Unset
    /\ EsUnset

NextCols ==
    \/ DoAggregateToSemester
    \/ DoCreateDeltaVariables

SpecCols == InitCols /\ [][NextCols]_vars

\* aggregate_to_semester applied to the semester panel it returned
DoAggregateAgain ==
    /\ pc = "semester"
    /\ IF AggregateRaises(df_sem)
       THEN df_sem' = df_sem /\ pc' = "raised"
       ELSE df_sem' = AggregateToSemester(df_sem) /\ pc' = "semester_again"
    /\ UNCHANGED <<panel, df, treatment_seq, gene_features, n_bins, matched_genes,
                   panel_matched, alt_panel, alt_features>>
    /\ UNCHANGED <<esvars, runvars>>

NextAgain ==
    \/ DoAggregateToSemester
    \/ DoAggregateAgain

SpecAgain == InitCols /\ [][NextAgain]_vars

---------------------------------------------------------------------------
(* coarsened_exact_matching on a gene-feature table *)

\* the values a feature takes in the tables tried
CemPaperMeans == {Zero, Q(1, 2), One}
CemSds == {Zero, Sqrt(Q(1, 2))}
CemBins == {2, N_QUANTILE_BINS}

\* a gene whose counts have mean 0 has standard deviation 0
CemProfiles ==
    {f \in [pre_mean_papers : CemPaperMeans,
            pre_sd_papers : CemSds,
            pre_mean_newcom : {Zero},
            pre_mean_veteran : {Zero},
            pre_mean_top10 : {Zero},
            treated : {0, 1}] :
        f.pre_mean_papers = Zero => f.pre_sd_papers = Zero}

\* the gene-feature table of NCemGenes genes, one row per gene
CemFeatureTable(prof) == AsSeq([g \in 1..NCemGenes |-> prof[g] @@ [gene_id |-> g]])

InitCEM ==
    /\ pc = "features"
    /\ \E prof \in [1..NCemGenes -> CemProfiles] : gene_features = CemFeatureTable(prof)
    /\ n_bins \in CemBins
    /\ panel = Unset /\ df = Unset /\ treatment_seq = 0
    /\ matched_genes = Unset /\ panel_matched = Unset /\ df_sem = Unset
    /\ alt_panel = Unset /\ alt_features = Unset
    /\ EsUnset

NextCEM == DoCoarsenedExactMatching

SpecCEM == InitCEM /\ [][NextCEM]_vars

\* the same on the gene-feature tables of NBinGenes genes
InitBins ==
    /\ pc = "features"
    /\ \E prof \in [1..NBinGenes -> CemProfiles] :
            gene_features = AsSeq([g \in 1..NBinGenes |-> prof[g] @@ [gene_id |-> g]])
    /\ n_bins \in CemBins
    /\ panel = Unset /\ df = Unset /\ treatment_seq = 0
    /\ matched_genes = Unset /\ panel_matched = Unset /\ df_sem = Unset
    /\ alt_panel = Unset /\ alt_features = Unset
    /\ EsUnset

SpecBins == InitBins /\ [][NextCEM]_vars

\* four treated and four control genes with pre-period mean papers 1, 1, 5, 5
\* in each arm, in any row order; the other covariates are the same for all
ScenarioMeans == {One, Q(5, 1)}
ScenarioKinds == [pre_mean_papers : ScenarioMeans, treated : {0, 1}]
\* two genes of each mean in each arm
ScenarioGenes == 2 * Cardinality(ScenarioKinds)
ScenarioRest ==
    [pre_sd_papers : {Zero, One},
     pre_mean_newcom : {Zero, Q(1, 2)},
     pre_mean_veteran : {Zero},
     pre_mean_top10 : {Zero}]

InitScenario ==
    /\ pc = "features"
    /\ \E kind \in [1..ScenarioGenes -> ScenarioKinds] : \E rest \in ScenarioRest :
        /\ \A k \in ScenarioKinds :
                Cardinality({g \in 1..ScenarioGenes : kind[g] = k}) = 2
        /\ gene_features =
                AsSeq([g \in 1..ScenarioGenes |-> kind[g] @@ rest @@ [gene_id |-> g]])
    /\ n_bins = N_QUANTILE_BINS
    /\ panel = Unset /\ df = Unset /\ treatment_seq = 0
    /\ matched_genes = Unset /\ panel_matched = Unset /\ df_sem = Unset
    /\ alt_panel = Unset /\ alt_features = Unset
    /\ EsUnset

SpecScenario == InitScenario /\ [][NextCEM]_vars

---------------------------------------------------------------------------
(* compute_pre_treatment_features on a panel, and on a second panel that *)
(* differs from it in one row of the treatment month                     *)

\* the outcome counts of a monthly row in the panels tried
FeatOutcomes ==
    {[n_papers |-> 0, n_newcomer_papers |-> 0, n_veteran_papers |-> 0, n_top10_y |-> 0],
     [n_papers |-> 1, n_newcomer_papers |-> 1, n_veteran_papers |-> 0, n_top10_y |-> 0],
     [n_papers |-> 2, n_newcomer_papers |-> 0, n_veteran_papers |-> 2, n_top10_y |-> 1]}

\* the months of these panels: two before the treatment month, and that month
FeatMonths == (TREATMENT_YM - 2)..TREATMENT_YM

\* the rows of gene g, which has a row for every month from its first on
FeatGeneRows(g, first, outcomes) ==
    AsSeq([k \in 1..(TREATMENT_YM - first + 1) |->
        outcomes[k] @@ [gene_id |-> g, ym |-> first + k - 1, num_deposits |-> g - 1]])

\* the first month of a gene and its outcome counts from that month on
FeatSeries ==
    UNION {[first : {first}, outcomes : [1..(TREATMENT_YM - first + 1) -> FeatOutcomes]] :
            first \in FeatMonths}

\* the panel of NFeatGenes genes, sorted by gene_id and ym
FeatPanel(c) ==
    Concat([g \in 1..NFeatGenes |-> FeatGeneRows(g, c[g].first, c[g].outcomes)], NFeatGenes)

\* the panel with the outcome counts of row i replaced
WithOutcomes(p, i, o) ==
    [p EXCEPT ![i] = o @@ [gene_id |-> p[i].gene_id, ym |-> p[i].ym,
                           num_deposits |-> p[i].num_deposits]]

\* a second run of create_time_variables and compute_pre_treatment_features,
\* on the panel with other outcome counts in one row of ym_seq >= treatment_seq
DoComputeAltFeatures ==
    /\ pc = "features"
    /\ \E i \in DOMAIN df, o \in FeatOutcomes :
        /\ df[i].ym_seq >= treatment_seq
        /\ o.n_papers # panel[i].n_papers
        /\ alt_panel' = WithOutcomes(panel, i, o)
    /\ alt_features' =
        ComputePreTreatmentFeatures(CreateTimeVariables(alt_panel'), TreatmentSeq(alt_panel'))
    /\ pc' = "alt_features"
    /\ UNCHANGED <<panel, df, treatment_seq, gene_features, n_bins, matched_genes,
                   panel_matched, df_sem>>
    /\ UNCHANGED <<esvars, runvars>>

InitFeat ==
    /\ pc = "loaded"
    /\ \E c \in [1..NFeatGenes -> FeatSeries] : panel = FeatPanel(c)
    /\ df = Unset /\ treatment_seq = 0 /\ gene_features = Unset /\ n_bins = N_QUANTILE_BINS
    /\ matched_genes = Unset /\ panel_matched = Unset /\ df_sem = Unset
    /\ alt_panel = Unset /\ alt_features = Unset
    /\ EsUnset

NextFeat ==
    \/ DoCreateTimeVariables
    \/ DoComputePreTreatmentFeatures
    \/ DoComputeAltFeatures

SpecFeat == InitFeat /\ [][NextFeat]_vars

---------------------------------------------------------------------------
(* 03_event_study.py: run_event_study_simple *)

BASE_PERIOD == -1

\* an outcome count is a whole number, D_y a number or NaN, and D_asinh_y a
\* difference of asinh values, read in units of asinh(1): the panels given to
\* the estimators have D_asinh_y only for counts 0 and 1, where it is exact
AsinhUnits(d) ==
    IF d = <<NaN>> THEN NaN
    ELSE IF d = <<Zero>> THEN Zero
    ELSE Q(d[1][1] - d[2][1], 1)

IsDAsinh(var) ==
    var \in {"D_asinh_n_papers", "D_asinh_n_newcomer_papers",
             "D_asinh_n_veteran_papers", "D_asinh_n_top10_y"}

ValueOf(r, var) ==
    IF var \in Range(OUTCOMES) THEN Q(r[var], 1)
    ELSE IF IsDAsinh(var) THEN AsinhUnits(r[var])
    ELSE r[var]

RDiv(a, b) == IF IsNaN(a) \/ IsNaN(b) THEN NaN ELSE Q(a[1] * b[2], a[2] * b[1])

\* df.dropna(subset=[outcome])
DropNaKeepingAll(frame, var) == frame
DropNa(frame, var) == SelectSeq(frame, LAMBDA r : ValueOf(r, var) # NaN)

\* sorted(df['rel_semester'].unique())
Periods(frame) == SetToSortedSeq({frame[i].rel_semester : i \in DOMAIN frame})

\* df[(df['rel_semester'] == k) & (df['treated'] == t)]
ArmRows(frame, k, t) == SelectSeq(frame, LAMBDA r : r.rel_semester = k /\ r.treated = t)

\* np.average(rows[outcome], weights=rows[weight_col]), the weights positive
WeightedValues(rows, var, weight_col) ==
    AsSeq([i \in DOMAIN rows |-> RMul(ValueOf(rows[i], var), rows[i][weight_col])])
UnweightedAverage(rows, var, weight_col) ==
    RDiv(SumNums(AsSeq([i \in DOMAIN rows |-> ValueOf(rows[i], var)])), Q(Len(rows), 1))
Average(rows, var, weight_col) ==
    RDiv(SumNums(WeightedValues(rows, var, weight_col)), SumNums(Column(rows, weight_col)))

\* the difference of the weighted means of the two arms in period k
ArmDiff(frame, var, weight_col, k) ==
    RSub(Average(ArmRows(frame, k, 1), var, weight_col),
         Average(ArmRows(frame, k, 0), var, weight_col))

BothArms(frame, k) == ArmRows(frame, k, 1) # <<>> /\ ArmRows(frame, k, 0) # <<>>

\* coef = diff_k - base_diff if k != base_period else 0.0
Coef(frame, var, weight_col, k, base_period) ==
    IF k # base_period
    THEN RSub(ArmDiff(frame, var, weight_col, k), ArmDiff(frame, var, weight_col, base_period))
    ELSE Zero

\* rows['gene_id'].unique(): the genes in the order of their first row
RECURSIVE UniqueGenes(_)
UniqueGenes(rows) ==
    IF rows = <<>> THEN <<>>
    ELSE <<Head(rows).gene_id>>
            \o UniqueGenes(SelectSeq(Tail(rows), LAMBDA r : r.gene_id # Head(rows).gene_id))

\* np.random.choice(genes, size=len(genes), replace=True): the possible draws
Draws(genes) == [1..Len(genes) -> Range(genes)]

\* rows[rows['gene_id'].isin(boot_genes)]
BootRows(rows, drawn) == SelectSeq(rows, LAMBDA r : r.gene_id \in Range(drawn))

\* the statistic of one replicate: (m_t - m_c) - base_diff
BootCoef(frame, var, weight_col, k, base_period, drawn_t, drawn_c) ==
    RSub(RSub(Average(BootRows(ArmRows(frame, k, 1), drawn_t), var, weight_col),
              Average(BootRows(ArmRows(frame, k, 0), drawn_c), var, weight_col)),
         ArmDiff(frame, var, weight_col, base_period))

\* np.std(xs): the standard deviation with divisor n
SumSquares(xs) == SumNums(AsSeq([i \in DOMAIN xs |-> RMul(xs[i], xs[i])]))
StdOf(xs) ==
    Sqrt(RDiv(RSub(RMul(Q(Len(xs), 1), SumSquares(xs)), RMul(SumNums(xs), SumNums(xs))),
              Q(Len(xs) * Len(xs), 1)))

\* se = np.std(boot_coefs) if boot_coefs else 0.0
Se(coefs, k, base_period) == IF coefs = <<>> THEN Zero ELSE StdOf(coefs)

\* 1.96 * se
HalfWidth(se) ==
    IF se[3] = 2 THEN Sqrt(Q(196 * 196 * se[1], 100 * 100 * se[2])) ELSE RMul(Q(196, 100), se)

\* coef - 1.96 * se and coef + 1.96 * se: a rational r as <<r, Zero>>, and the
\* sum of a rational r and a root h that is not rational as <<r, h>>
CiLow(coef, se) ==
    IF HalfWidth(se)[3] = 2 THEN <<coef, HalfWidth(se), "minus">>
    ELSE <<RSub(coef, HalfWidth(se)), Zero>>
CiHigh(coef, se) ==
    IF HalfWidth(se)[3] = 2 THEN <<coef, HalfWidth(se), "plus">>
    ELSE <<RAdd(coef, HalfWidth(se)), Zero>>

\* the row appended to results for period k
ResultRow(frame, var, weight_col, k, base_period, coefs) ==
    [period |-> k,
     coef |-> Coef(frame, var, weight_col, k, base_period),
     se |-> Se(coefs, k, base_period),
     ci_low |-> CiLow(Coef(frame, var, weight_col, k, base_period), Se(coefs, k, base_period)),
     ci_high |-> CiHigh(Coef(frame, var, weight_col, k, base_period), Se(coefs, k, base_period)),
     n_treated |-> Len(ArmRows(frame, k, 1)),
     n_control |-> Len(ArmRows(frame, k, 0))]

\* pd.DataFrame(results).sort_values('period')
RECURSIVE InsertByPeriod(_, _)
InsertByPeriod(r, s) ==
    IF s = <<>> THEN <<r>>
    ELSE IF Head(s).period <= r.period THEN <<Head(s)>> \o InsertByPeriod(r, Tail(s))
    ELSE <<r>> \o s

RECURSIVE SortByPeriod(_)
SortByPeriod(s) ==
    IF s = <<>> THEN <<>>
    ELSE InsertByPeriod(s[Len(s)], SortByPeriod(SubSeq(s, 1, Len(s) - 1)))

---------------------------------------------------------------------------
(* 03_event_study.py: run_event_study_ols *)

\* the periods that get an interaction column
AllPeriods(frame, base_period) == Periods(frame)
NonBasePeriods(frame, base_period) ==
    SelectSeq(Periods(frame), LAMBDA k : k # base_period)

\* ((df['treated'] == 1) & (df['rel_semester'] == k)).astype(int)
Interaction(frame, k) ==
    AsSeq([i \in DOMAIN frame |->
        IF frame[i].treated = 1 /\ frame[i].rel_semester = k THEN One ELSE Zero])

\* df.groupby(key)[col].transform('mean') in row i, for the column values v
GroupMean(frame, v, key, i) ==
    RDiv(SumNums(AsSeq([j \in DOMAIN frame |->
                    IF frame[j][key] = frame[i][key] THEN v[j] ELSE Zero])),
         Q(Len(SelectSeq(frame, LAMBDA r : r[key] = frame[i][key])), 1))

\* v - gene means - time means + overall mean
Demeaned(frame, v) ==
    AsSeq([i \in DOMAIN frame |->
        RAdd(RSub(RSub(v[i], GroupMean(frame, v, "gene_id", i)),
                  GroupMean(frame, v, "semester", i)),
             RDiv(SumNums(v), Q(Len(v), 1)))])

\* x * np.sqrt(w): a rational as <<r>>, and the product of a rational x # 0
\* and a root h that is not rational as <<x, h>>
TimesRoot(x, w) ==
    IF Sqrt(w)[3] = 1 THEN <<RMul(x, Sqrt(w))>>
    ELSE IF x = Zero THEN <<Zero>>
    ELSE <<x, Sqrt(w)>>

\* the columns of X_weighted and the vector y_weighted
XWeightedColumn(frame, weight_col, k) ==
    AsSeq([i \in DOMAIN frame |->
        TimesRoot(Demeaned(frame, Interaction(frame, k))[i], frame[i][weight_col])])

XWeighted(frame, weight_col, base_period) ==
    AsSeq([j \in DOMAIN NonBasePeriods(frame, base_period) |->
        XWeightedColumn(frame, weight_col, NonBasePeriods(frame, base_period)[j])])

YWeighted(frame, var, weight_col) ==
    AsSeq([i \in DOMAIN frame |->
        TimesRoot(Demeaned(frame, AsSeq([j \in DOMAIN frame |-> ValueOf(frame[j], var)]))[i],
                  frame[i][weight_col])])

\* sm.add_constant (has_constant='skip'): a column of ones is put first,
\* unless a column is already constant and not zero
IsConstantColumn(col) == col # <<>> /\ col[1] # <<Zero>> /\ \A i \in DOMAIN col : col[i] = col[1]
OnesColumn(frame) == AsSeq([i \in DOMAIN frame |-> <<One>>])
AddConstantNever(frame, cols) == cols
AddConstant(frame, cols) ==
    IF \E j \in DOMAIN cols : IsConstantColumn(cols[j]) THEN cols
    ELSE <<OnesColumn(frame)>> \o cols

\* sm.OLS(y, X).fit(cov_type='cluster', groups=gene_id): the estimate is by
\* pseudo-inverse and does not fail on a singular design; the small-sample
\* correction of the cluster covariance, n_groups / (n_groups - 1.) *
\* (nobs - 1.) / float(nobs - k_params), divides by zero for one cluster and
\* for nobs = k_params, and the exception is caught by the caller
FitRaises(frame, design) ==
    \/ Cardinality({frame[i].gene_id : i \in DOMAIN frame}) = 1
    \/ Len(frame) = Len(design)

\* results.params[j] and results.bse[j], as functions of the arguments of fit
FitStat(name, j, frame, var, weight_col, base_period) ==
    <<name, j, AddConstant(frame, XWeighted(frame, weight_col, base_period)),
      YWeighted(frame, var, weight_col), Column(frame, "gene_id")>>

\* coefs = results.params[1:] and ses = results.bse[1:]
NumCoefs(frame, weight_col, base_period) ==
    Len(AddConstant(frame, XWeighted(frame, weight_col, base_period))) - 1

\* the row of the i-th period that is not the base period
OlsRow(frame, var, weight_col, base_period, i) ==
    [period |-> NonBasePeriods(frame, base_period)[i],
     coef |-> FitStat("params", i + 1, frame, var, weight_col, base_period),
     se |-> FitStat("bse", i + 1, frame, var, weight_col, base_period),
     ci_low |-> <<FitStat("params", i + 1, frame, var, weight_col, base_period),
                  FitStat("bse", i + 1, frame, var, weight_col, base_period), "minus">>,
     ci_high |-> <<FitStat("params", i + 1, frame, var, weight_col, base_period),
                   FitStat("bse", i + 1, frame, var, weight_col, base_period), "plus">>]

BaseRow(base_period) ==
    [period |-> base_period, coef |-> Zero, se |-> Zero,
     ci_low |-> <<Zero, Zero>>, ci_high |-> <<Zero, Zero>>]

OlsRows(frame, var, weight_col, base_period) ==
    AsSeq([i \in DOMAIN NonBasePeriods(frame, base_period) |->
        OlsRow(frame, var, weight_col, base_period, i)])

\* the call on the frame after dropna: what it returns, or that it raises
OlsOfFrame(frame, var, weight_col, base_period) ==
    IF frame = <<>> THEN [returned |-> "None", results |-> <<>>, printed |-> <<>>]
    ELSE IF FitRaises(frame, AddConstant(frame, XWeighted(frame, weight_col, base_period)))
    THEN [returned |-> "None", results |-> <<>>, printed |-> <<<<"Regression failed">>>>]
    ELSE IF NumCoefs(frame, weight_col, base_period)
                < Len(NonBasePeriods(frame, base_period))
    THEN [returned |-> "raised", results |-> <<>>, printed |-> <<>>]
    ELSE [returned |-> "table", printed |-> <<>>,
          results |-> SortByPeriod(Append(OlsRows(frame, var, weight_col, base_period),
                                          BaseRow(base_period)))]

RunEventStudyOls(frame, var, weight_col, base_period) ==
    OlsOfFrame(DropNa(frame, var), var, weight_col, base_period)

---------------------------------------------------------------------------
(* The steps of run_event_study_simple(df, outcome) *)

weight_col == "cem_weight"

\* the frame after dropna, and the period of the loop iteration
EsFrame == DropNa(es_df, outcome)
EsPeriod == Periods(EsFrame)[period_idx]
InLoop == pc = "es_loop" /\ period_idx <= Len(Periods(EsFrame))

\* from the call to the loop over periods, or to one of the two 'return None'
EsEnter ==
    /\ pc = "es_called"
    /\ IF EsFrame = <<>>
       THEN /\ returned' = "None" /\ pc' = "es_returned"
            /\ UNCHANGED <<period_idx, log>>
       ELSE IF ~BothArms(EsFrame, BASE_PERIOD)
       THEN /\ returned' = "None" /\ pc' = "es_returned"
            /\ log' = Append(log, <<"No data in base period", BASE_PERIOD>>)
            /\ UNCHANGED period_idx
       ELSE /\ period_idx' = 1 /\ pc' = "es_loop"
            /\ UNCHANGED <<returned, log>>
    /\ results' = <<>> /\ boot_coefs' = <<>> /\ boot_genes' = Unset
    /\ UNCHANGED <<cemvars, runvars, df_sem, es_df, outcome, calls_left, first_call, all_results, pair_idx>>

\* a period without treated rows or without control rows: continue
EsSkipPeriod ==
    /\ InLoop
    /\ ~BothArms(EsFrame, EsPeriod)
    /\ period_idx' = period_idx + 1
    /\ UNCHANGED <<pc, cemvars, runvars, df_sem, es_df, outcome, calls_left, boot_coefs, boot_genes,
                   results, returned, first_call, log, all_results, pair_idx>>

\* one bootstrap replicate of the period
EsReplicate ==
    /\ InLoop
    /\ BothArms(EsFrame, EsPeriod)
    /\ Len(boot_coefs) < n_boot
    /\ \E drawn_t \in Draws(UniqueGenes(ArmRows(EsFrame, EsPeriod, 1))),
          drawn_c \in Draws(UniqueGenes(ArmRows(EsFrame, EsPeriod, 0))) :
        /\ boot_genes' = [t |-> drawn_t, c |-> drawn_c]
        /\ boot_coefs' = Append(boot_coefs,
                BootCoef(EsFrame, outcome, weight_col, EsPeriod, BASE_PERIOD, drawn_t, drawn_c))
    /\ UNCHANGED <<pc, cemvars, runvars, df_sem, es_df, outcome, calls_left, period_idx,
                   results, returned, first_call, log, all_results, pair_idx>>

\* after the last replicate: results.append(...); the statistics and the draws
\* of the period are not read again
EsAppendRow ==
    /\ InLoop
    /\ BothArms(EsFrame, EsPeriod)
    /\ Len(boot_coefs) = n_boot
    /\ results' = Append(results,
            ResultRow(EsFrame, outcome, weight_col, EsPeriod, BASE_PERIOD, boot_coefs))
    /\ boot_coefs' = <<>> /\ boot_genes' = Unset
    /\ period_idx' = period_idx + 1
    /\ UNCHANGED <<pc, cemvars, runvars, df_sem, es_df, outcome, calls_left,
                   returned, first_call, log, all_results, pair_idx>>

\* return pd.DataFrame(results).sort_values('period')
EsReturn ==
    /\ pc = "es_loop" /\ period_idx > Len(Periods(EsFrame))
    /\ results' = SortByPeriod(results)
    /\ returned' = "table"
    /\ pc' = "es_returned"
    /\ UNCHANGED <<cemvars, runvars, df_sem, es_df, outcome, calls_left, period_idx, boot_coefs,
                   boot_genes, first_call, log, all_results, pair_idx>>

\* the caller keeps what the call returned and calls again, same arguments
EsCallAgain ==
    /\ pc = "es_returned" /\ calls_left > 0
    /\ first_call' = [returned |-> returned, results |-> results, df |-> es_df]
    /\ calls_left' = calls_left - 1
    /\ pc' = "es_called"
    /\ returned' = "" /\ results' = Unset /\ period_idx' = 0
    /\ UNCHANGED <<cemvars, runvars, df_sem, es_df, outcome, boot_coefs, boot_genes, log, all_results, pair_idx>>

---------------------------------------------------------------------------
(* run_event_study_simple on a semester panel *)

EsFirstPeriod == -2

EsRow(g, k, treated, w, var, v) ==
    [gene_id |-> g, semester |-> k - EsFirstPeriod, rel_semester |-> k,
     treated |-> treated, cem_weight |-> w] @@ (var :> v)

\* treated gene 1 with counts 2, 2, 2, 6 and control gene 2 with counts
\* 2, 2, 2, 2 in the periods -2, -1, 0, 1, with equal weights
ScenarioCounts == <<<<2, 2, 2, 6>>, <<2, 2, 2, 2>>>>
ScenarioPanel ==
    Concat([g \in 1..2 |->
        AsSeq([i \in 1..4 |->
            EsRow(g, EsFirstPeriod + i - 1, 2 - g, One, "n_papers", ScenarioCounts[g][i])])], 2)

\* the other panels have treated genes 1, 2, 3 (weight 1) and control genes
\* 4 (weight 2) and 5 (weight 1) in the periods -1 and 0, with D_n_papers
\* missing in some rows: genes 2, 3 have it in period -1 only and gene 5 in
\* period 0 only
EsChoices ==
    [base1 : {Zero, One, NaN}, base4 : BOOLEAN,
     post1 : {Zero, Q(2, 1), NaN}, post4 : BOOLEAN, post5 : BOOLEAN]

IfPresent(present, v) == IF present THEN v ELSE NaN

EsGeneValues(c) ==
    <<<<c.base1, c.post1>>,
      <<IfPresent(c.base1 # NaN, Zero), NaN>>,
      <<IfPresent(c.base1 # NaN, One), NaN>>,
      <<IfPresent(c.base4, Zero), IfPresent(c.post4, Zero)>>,
      <<NaN, IfPresent(c.post5, One)>>>>

EsTreated == <<1, 1, 1, 0, 0>>
EsWeights == <<One, One, One, Q(2, 1), One>>

EsPanel(c) ==
    Concat([g \in 1..5 |->
        AsSeq([i \in 1..2 |->
            EsRow(g, BASE_PERIOD + i - 1, EsTreated[g], EsWeights[g],
                  "D_n_papers", EsGeneValues(c)[g][i])])], 5)

EsCalled(calls) ==
    /\ pc = "es_called"
    /\ calls_left = calls
    /\ period_idx = 0 /\ boot_coefs = Unset /\ boot_genes = Unset /\ results = Unset
    /\ returned = "" /\ first_call = Unset /\ log = <<>> /\ all_results = Unset
    /\ pair_idx = 0
    /\ RunUnset
    /\ panel = Unset /\ df = Unset /\ treatment_seq = 0 /\ gene_features = Unset
    /\ n_bins = N_QUANTILE_BINS /\ matched_genes = Unset /\ panel_matched = Unset
    /\ df_sem = Unset /\ alt_panel = Unset /\ alt_features = Unset

InitES ==
    /\ \/ es_df = ScenarioPanel /\ outcome = "n_papers"
       \/ \E c \in EsChoices : es_df = EsPanel(c) /\ outcome = "D_n_papers"
    /\ EsCalled(0)

NextES ==
    \/ EsEnter
    \/ EsSkipPeriod
    \/ EsReplicate
    \/ EsAppendRow
    \/ EsReturn

SpecES == InitES /\ [][NextES]_vars

---------------------------------------------------------------------------
(* run_event_study_ols on a semester panel, and two calls of an estimator *)

\* the whole call run_event_study_ols(es_df, outcome)
OlsCall ==
    /\ pc = "ols_called"
    /\ \E res \in {RunEventStudyOls(es_df, outcome, weight_col, BASE_PERIOD)} :
        /\ returned' = res.returned
        /\ results' = res.results
        /\ log' = log \o res.printed
    /\ pc' = "ols_returned"
    /\ UNCHANGED <<cemvars, runvars, df_sem, es_df, outcome, calls_left, period_idx, boot_coefs,
                   boot_genes, first_call, all_results, pair_idx>>

\* the caller keeps what the call returned and calls again, same arguments
OlsCallAgain ==
    /\ pc = "ols_returned" /\ calls_left > 0
    /\ first_call' = [returned |-> returned, results |-> results, df |-> es_df]
    /\ calls_left' = calls_left - 1
    /\ pc' = "ols_called"
    /\ returned' = "" /\ results' = Unset
    /\ UNCHANGED <<cemvars, runvars, df_sem, es_df, outcome, period_idx, boot_coefs, boot_genes,
                   log, all_results, pair_idx>>

\* the state when run_event_study_ols is called, calls more calls to follow
OlsCalled(calls) ==
    /\ pc = "ols_called"
    /\ calls_left = calls
    /\ period_idx = 0 /\ boot_coefs = Unset /\ boot_genes = Unset /\ results = Unset
    /\ returned = "" /\ first_call = Unset /\ log = <<>> /\ all_results = Unset
    /\ pair_idx = 0
    /\ RunUnset
    /\ panel = Unset /\ df = Unset /\ treatment_seq = 0 /\ gene_features = Unset
    /\ n_bins = N_QUANTILE_BINS /\ matched_genes = Unset /\ panel_matched = Unset
    /\ df_sem = Unset /\ alt_panel = Unset /\ alt_features = Unset

EsArguments ==
    \/ es_df = ScenarioPanel /\ outcome = "n_papers"
    \/ \E c \in EsChoices : es_df = EsPanel(c) /\ outcome = "D_n_papers"

InitOLS == EsArguments /\ OlsCalled(0)

NextOLS == OlsCall

SpecOLS == InitOLS /\ [][NextOLS]_vars

InitTwice == EsArguments /\ (EsCalled(1) \/ OlsCalled(1))

NextTwice ==
    \/ EsEnter
    \/ EsSkipPeriod
    \/ EsReplicate
    \/ EsAppendRow
    \/ EsReturn
    \/ EsCallAgain
    \/ OlsCall
    \/ OlsCallAgain

SpecTwice == InitTwice /\ [][NextTwice]_vars

---------------------------------------------------------------------------
(* The two estimators on a first-difference outcome of a semester panel *)

\* treated gene 1 and control genes 2 and 3 from period first to period 1:
\* gene 3 may enter one semester late and gene 1 may leave after period 0
FdLastPeriod == 1
FdChoices ==
    [first : {-2, BASE_PERIOD}, late : BOOLEAN, short : BOOLEAN,
     t0 : {0, 1}, t1 : {0, 1}]

FdCount(c, g, k) ==
    IF g = 1 /\ k = 0 THEN c.t0
    ELSE IF g = 1 /\ k = FdLastPeriod THEN c.t1
    ELSE IF g = 2 /\ k = FdLastPeriod THEN 1
    ELSE IF g = 3 /\ k = BASE_PERIOD THEN 1
    ELSE 0

FdRow(c, g, k) ==
    [gene_id |-> g, semester |-> k - c.first, rel_semester |-> k,
     treated |-> IF g = 1 THEN 1 ELSE 0,
     cem_weight |-> IF g = 1 THEN One ELSE Q(1, 2),
     n_papers |-> FdCount(c, g, k)]

FdFirstOf(c, g) == c.first + (IF c.late /\ g = 3 THEN 1 ELSE 0)
FdLastOf(c, g) == FdLastPeriod - (IF c.short /\ g = 1 THEN 1 ELSE 0)

FdGeneRows(c, g) ==
    AsSeq([i \in 1..(FdLastOf(c, g) - FdFirstOf(c, g) + 1) |->
        FdRow(c, g, FdFirstOf(c, g) + i - 1)])

FdPanel(c) == CreateDeltaVariables(Concat([g \in 1..3 |-> FdGeneRows(c, g)], 3))

InitFd ==
    /\ \E c \in FdChoices : es_df = FdPanel(c)
    /\ outcome \in {"D_n_papers", "D_asinh_n_papers"}
    /\ (EsCalled(0) \/ OlsCalled(0))

NextFd ==
    \/ EsEnter
    \/ EsSkipPeriod
    \/ EsReplicate
    \/ EsAppendRow
    \/ EsReturn
    \/ OlsCall

SpecFd == InitFd /\ [][NextFd]_vars

---------------------------------------------------------------------------
(* main of 03_event_study.py: the batch run over outcomes and specifications *)

specifications == <<"LEVELS", "DY", "DASINH">>

\* the lambdas of the specifications
GetVar(spec_name, y) ==
    IF spec_name = "LEVELS" THEN y
    ELSE IF spec_name = "DY" THEN "D_" \o y
    ELSE "D_asinh_" \o y

\* the pairs in the order of the two nested loops
NumPairs == Len(OUTCOMES) * Len(specifications)
OutcomeOf(k) == OUTCOMES[((k - 1) \div Len(specifications)) + 1]
SpecOf(k) == specifications[((k - 1) % Len(specifications)) + 1]
VarOf(k) == GetVar(SpecOf(k), OutcomeOf(k))

\* print("Outcome: ...") at the head of the outer loop
Header(k) == IF SpecOf(k) = specifications[1] THEN <<<<"Outcome", OutcomeOf(k)>>>> ELSE <<>>

\* continue: the loop goes on with the next pair
BreakAt(k) == NumPairs + 1
ContinueAt(k) == k + 1

AtPair == pc = "batch" /\ pair_idx <= NumPairs

\* if var not in df.columns: print and continue
BatchSkipMissing ==
    /\ AtPair
    /\ VarOf(pair_idx) \notin Columns(es_df)
    /\ log' = log \o Header(pair_idx) \o <<<<"Skipping", SpecOf(pair_idx), VarOf(pair_idx)>>>>
    /\ pair_idx' = ContinueAt(pair_idx)
    /\ UNCHANGED <<pc, cemvars, runvars, df_sem, es_df, outcome, calls_left, period_idx, boot_coefs,
                   boot_genes, results, returned, first_call, all_results>>

\* results = run_event_study_simple(df, var): the call
BatchCall ==
    /\ AtPair
    /\ VarOf(pair_idx) \in Columns(es_df)
    /\ log' = log \o Header(pair_idx) \o <<<<"Running", SpecOf(pair_idx)>>>>
    /\ outcome' = VarOf(pair_idx)
    /\ pc' = "es_called"
    /\ returned' = "" /\ results' = Unset /\ period_idx' = 0
    /\ UNCHANGED <<cemvars, runvars, df_sem, es_df, calls_left, boot_coefs, boot_genes,
                   first_call, all_results, pair_idx>>

\* after the call: print "Failed to run" and continue when it returned None,
\* else save and store the table (the plot and the printed means of the
\* coefficients, which nothing reads, are left out)
BatchStore ==
    /\ pc = "es_returned" /\ pair_idx > 0
    /\ IF returned = "None"
       THEN /\ log' = Append(log, <<"Failed to run", SpecOf(pair_idx)>>)
            /\ pair_idx' = ContinueAt(pair_idx)
            /\ UNCHANGED all_results
       ELSE /\ log' = Append(log, <<"Saved", SpecOf(pair_idx), OutcomeOf(pair_idx)>>)
            /\ all_results' = Append(all_results,
                    [key |-> <<OutcomeOf(pair_idx), SpecOf(pair_idx)>>, results |-> results])
            /\ pair_idx' = pair_idx + 1
    /\ pc' = "batch"
    /\ UNCHANGED <<cemvars, runvars, df_sem, es_df, outcome, calls_left, period_idx, boot_coefs,
                   boot_genes, results, returned, first_call>>

\* return all_results
BatchDone ==
    /\ pc = "batch" /\ pair_idx > NumPairs
    /\ pc' = "batch_done"
    /\ UNCHANGED <<cemvars, runvars, df_sem, esvars>>

\* the semester panels read: treated gene 1 and control gene 2 with weight 1
\* in the periods first..1, counts 0 or 1, gene 2 without its last row when
\* gap holds, made by create_delta_variables from a table without the column
\* dropped (gene_id stands for none dropped)
BatchLastPeriod == 1
BatchChoices ==
    [first : {-2, BASE_PERIOD}, dropped : {"gene_id", "n_veteran_papers", "n_top10_y"},
     gap : BOOLEAN, t0 : {0, 1}, t1 : {0, 1}]

BatchCount(c, g, k) ==
    IF g = 1 /\ k = 0 THEN c.t0 ELSE IF g = 1 /\ k = BatchLastPeriod THEN c.t1 ELSE 0

BatchRow(c, g, k) ==
    [gene_id |-> g, semester |-> k - c.first, rel_semester |-> k,
     treated |-> 2 - g, cem_weight |-> One, post |-> IF k >= 0 THEN 1 ELSE 0,
     n_papers |-> BatchCount(c, g, k), n_newcomer_papers |-> BatchCount(c, g, k),
     n_veteran_papers |-> 0, n_top10_y |-> 1 - BatchCount(c, g, k)]

BatchGeneRows(c, g) ==
    AsSeq([i \in 1..(BatchLastPeriod - c.first + (IF c.gap /\ g = 2 THEN 0 ELSE 1)) |->
        IF c.dropped = "gene_id" THEN BatchRow(c, g, c.first + i - 1)
        ELSE Without(BatchRow(c, g, c.first + i - 1), c.dropped)])

BatchPanel(c) == CreateDeltaVariables(BatchGeneRows(c, 1) \o BatchGeneRows(c, 2))

InitBatch ==
    /\ pc = "batch"
    /\ pair_idx = 1
    /\ \E c \in BatchChoices : es_df = BatchPanel(c)
    /\ outcome = "" /\ calls_left = 0
    /\ period_idx = 0 /\ boot_coefs = Unset /\ boot_genes = Unset /\ results = Unset
    /\ returned = "" /\ first_call = Unset /\ log = <<>> /\ all_results = <<>>
    /\ RunUnset
    /\ panel = Unset /\ df = Unset /\ treatment_seq = 0 /\ gene_features = Unset
    /\ n_bins = N_QUANTILE_BINS /\ matched_genes = Unset /\ panel_matched = Unset
    /\ df_sem = Unset /\ alt_panel = Unset /\ alt_features = Unset

NextBatch ==
    \/ BatchSkipMissing
    \/ BatchCall
    \/ EsEnter
    \/ EsSkipPeriod
    \/ EsReplicate
    \/ EsAppendRow
    \/ EsReturn
    \/ BatchStore
    \/ BatchDone

SpecBatch == InitBatch /\ [][NextBatch]_vars

---------------------------------------------------------------------------
(* 04_integrate_dois.py: the time variables of the DOI records *)

DOI_YM_MIN == 720

\* df[(df['year'] >= 2020) & (df['year'] <= 2023)]: a missing year compares
\* False and is filtered out
AnalysisPeriod(records) ==
    SelectSeq(records, LAMBDA r : r.year # NullInt /\ r.year >= 2020 /\ r.year <= 2023)

\* df.dropna(subset=['year', 'month'])
DropNaYearMonth(records) ==
    SelectSeq(records, LAMBDA r : r.year # NullInt /\ r.month # NullInt)

\* create_time_variables of 04_integrate_dois.py
DoiTimeRow(r) ==
    r @@ [ym |-> (r.year - 1960) * 12 + (r.month - 1),
          ym_seq |-> (r.year - 1960) * 12 + (r.month - 1) - DOI_YM_MIN + 1,
          semester |-> ((r.year - 1960) * 12 + (r.month - 1) - DOI_YM_MIN) \div 6,
          rel_semester |->
              (((r.year - 1960) * 12 + (r.month - 1) - DOI_YM_MIN) \div 6)
                  - ((TREATMENT_YM - DOI_YM_MIN + 1 - 1) \div 6)]

DoiCreateTimeVariables(records) ==
    AsSeq([i \in DOMAIN DropNaYearMonth(records) |-> DoiTimeRow(DropNaYearMonth(records)[i])])

\* aggregate_dois_by_gene_semester, up to its groupby: the records of the
\* analysis period with their time variables; 04_integrate_dois.py runs after
\* 01_cem_matching.py has built the time variables of the panel
DoDoiTimeVariables ==
    /\ pc = "time_variables"
    /\ doi_df' = DoiCreateTimeVariables(AnalysisPeriod(doi_df))
    /\ pc' = "doi_time_variables"
    /\ UNCHANGED <<cemvars, df_sem, esvars, args, step_idx, run_results, success>>

\* the panels tried have one gene and every month from their first month to
\* the end of 2021; the DOI records have a year, a month or neither
DoiPanelStarts == {708, 714, 719, 720}
DoiPanelEnd == 743
DoiYears == {NullInt, 2019, 2020, 2021}
DoiMonths == {NullInt, 1, 7, 12}

DoiPanel(ym_min) ==
    AsSeq([k \in 1..(DoiPanelEnd - ym_min + 1) |->
        [gene_id |-> 1, ym |-> ym_min + k - 1, num_deposits |-> 0,
         n_papers |-> 0, n_newcomer_papers |-> 0, n_veteran_papers |-> 0, n_top10_y |-> 0]])

DoiRecord(g, year, month) == [gene_id |-> g, year |-> year, month |-> month]

InitDoi ==
    /\ pc = "loaded"
    /\ \E ym_min \in DoiPanelStarts : panel = DoiPanel(ym_min)
    /\ \E y1 \in DoiYears, m1 \in DoiMonths :
            doi_df = <<DoiRecord(1, y1, m1), DoiRecord(1, 2021, 6)>>
    /\ args = Unset /\ step_idx = 0 /\ run_results = Unset /\ success = FALSE
    /\ df = Unset /\ treatment_seq = 0 /\ gene_features = Unset /\ n_bins = N_QUANTILE_BINS
    /\ matched_genes = Unset /\ panel_matched = Unset /\ df_sem = Unset
    /\ alt_panel = Unset /\ alt_features = Unset
    /\ es_df = Unset /\ outcome = "" /\ calls_left = 0 /\ period_idx = 0
    /\ boot_coefs = Unset /\ boot_genes = Unset /\ results = Unset
    /\ returned = "" /\ first_call = Unset /\ log = Unset /\ all_results = Unset
    /\ pair_idx = 0

NextDoi ==
    \/ DoCreateTimeVariables
    \/ DoDoiTimeVariables

SpecDoi == InitDoi /\ [][NextDoi]_vars

---------------------------------------------------------------------------
(* run_pipeline.py: the steps in order, each under try/except *)

steps ==
    <<<<1, "CEM Matching", "01_cem_matching">>,
      <<2, "Semester Aggregation", "02_semester_aggregation">>,
      <<3, "Event Study Analysis", "03_event_study">>,
      <<4, "DOI Integration", "04_integrate_dois">>>>

\* what module.main() can raise: a missing input file, a missing column
StepExceptions == {"FileNotFoundError", "KeyError"}

\* args.step is 0 when --step is not given (None, and --step 0, are falsy)
StepRequested == args.step # 0

\* the two 'continue' of the loop
StepSkipped(step_num) ==
    \/ StepRequested /\ args.step # step_num
    \/ args.skip_doi /\ step_num = 4

\* if not success and not args.step: break
NeverStops(ok) == FALSE
StopsAfter(ok) == ~ok /\ ~StepRequested

AtStep == pc = "run_loop" /\ step_idx <= Len(steps)

RunSkipStep ==
    /\ AtStep
    /\ StepSkipped(steps[step_idx][1])
    /\ step_idx' = step_idx + 1
    /\ UNCHANGED <<pc, cemvars, df_sem, esvars, args, run_results, success, doi_df>>

\* success = run_step(step_num, step_name, module_name): the module's main
\* returns, or raises an exception that run_step catches and prints
RunStep ==
    /\ AtStep
    /\ ~StepSkipped(steps[step_idx][1])
    /\ \/ /\ success' = TRUE
          /\ log' = log \o <<<<"STEP", steps[step_idx][1], steps[step_idx][2]>>,
                              <<"completed", steps[step_idx][1]>>>>
       \/ \E e \in StepExceptions :
            /\ success' = FALSE
            /\ log' = log \o <<<<"STEP", steps[step_idx][1], steps[step_idx][2]>>,
                                <<"failed", steps[step_idx][1], e>>>>
    /\ pc' = "step_returned"
    /\ UNCHANGED <<cemvars, df_sem, es_df, outcome, calls_left, period_idx, boot_coefs,
                   boot_genes, results, returned, first_call, all_results, pair_idx,
                   args, step_idx, run_results, doi_df>>

\* results.append(...), and the break after a failed step of a full run
RunRecord ==
    /\ pc = "step_returned"
    /\ run_results' = Append(run_results,
            [step_num |-> steps[step_idx][1], step_name |-> steps[step_idx][2],
             success |-> success])
    /\ IF StopsAfter(success)
       THEN /\ log' = Append(log, <<"Pipeline stopped at step", steps[step_idx][1]>>)
            /\ pc' = "run_summary"
            /\ UNCHANGED step_idx
       ELSE /\ step_idx' = step_idx + 1
            /\ pc' = "run_loop"
            /\ UNCHANGED log
    /\ UNCHANGED <<cemvars, df_sem, es_df, outcome, calls_left, period_idx, boot_coefs,
                   boot_genes, results, returned, first_call, all_results, pair_idx,
                   args, success, doi_df>>

\* the loop has gone through the steps
RunLoopEnd ==
    /\ pc = "run_loop" /\ step_idx > Len(steps)
    /\ pc' = "run_summary"
    /\ UNCHANGED <<cemvars, df_sem, esvars, runvars>>

\* the summary: one line per step that ran; main returns
RunSummary ==
    /\ pc = "run_summary"
    /\ log' = log \o AsSeq([i \in DOMAIN run_results |->
                <<"Step", run_results[i].step_num,
                  IF run_results[i].success THEN "SUCCESS" ELSE "FAILED">>])
    /\ pc' = "run_done"
    /\ UNCHANGED <<cemvars, df_sem, es_df, outcome, calls_left, period_idx, boot_coefs,
                   boot_genes, results, returned, first_call, all_results, pair_idx,
                   runvars>>

InitRun ==
    /\ pc = "run_loop"
    /\ args \in [step : 0..Len(steps), skip_doi : BOOLEAN]
    /\ step_idx = 1 /\ run_results = <<>> /\ success = FALSE /\ doi_df = Unset
    /\ es_df = Unset /\ outcome = "" /\ calls_left = 0 /\ period_idx = 0
    /\ boot_coefs = Unset /\ boot_genes = Unset /\ results = Unset
    /\ returned = "" /\ first_call = Unset /\ log = <<>> /\ all_results = Unset
    /\ pair_idx = 0
    /\ panel = Unset /\ df = Unset /\ treatment_seq = 0 /\ gene_features = Unset
    /\ n_bins = N_QUANTILE_BINS /\ matched_genes = Unset /\ panel_matched = Unset
    /\ df_sem = Unset /\ alt_panel = Unset /\ alt_features = Unset

NextRun ==
    \/ RunSkipStep
    \/ RunStep
    \/ RunRecord
    \/ RunLoopEnd
    \/ RunSummary

SpecRun == InitRun /\ [][NextRun]_vars

---------------------------------------------------------------------------
(* Properties of coarsened_exact_matching (SpecCEM) *)

CemDone == pc = "matched_genes"

\* the genes of a table that lie in stratum st and have the given treated value
ArmOf(rows, st, t) == {i \in DOMAIN rows : rows[i].stratum = st /\ rows[i].treated = t}

\* C1: every stratum of the output of coarsened_exact_matching holds at least
\* one treated and one control gene, and every retained gene is a gene of the
\* input that occurs once, in one stratum.
C1_CommonSupport ==
    CemDone =>
        /\ \A i \in DOMAIN matched_genes :
            /\ ArmOf(matched_genes, matched_genes[i].stratum, 1) # {}
            /\ ArmOf(matched_genes, matched_genes[i].stratum, 0) # {}
        /\ \A i, j \in DOMAIN matched_genes :
            matched_genes[i].gene_id = matched_genes[j].gene_id => i = j
        /\ \A i \in DOMAIN matched_genes :
            \E k \in DOMAIN gene_features : gene_features[k].gene_id = matched_genes[i].gene_id

\* some genes are retained and some are dropped
C1_Witness ==
    /\ CemDone
    /\ matched_genes # <<>>
    /\ Len(matched_genes) < Len(gene_features)

\* C2: for a non-empty matched set the cem_weights of the treated genes and
\* those of the control genes have the same sum.
C2_WeightBalance ==
    (CemDone /\ matched_genes # <<>>) =>
        SumWeight(matched_genes, 1) = SumWeight(matched_genes, 0)

\* a matched set with more treated than control genes
C2_Witness ==
    /\ CemDone
    /\ \E i \in DOMAIN matched_genes :
        Cardinality(ArmOf(matched_genes, matched_genes[i].stratum, 1))
            > Cardinality(ArmOf(matched_genes, matched_genes[i].stratum, 0))

\* n_treated / n_control of the stratum of row i of the output
StratumRatio(rows, i) ==
    Q(Cardinality(ArmOf(rows, rows[i].stratum, 1)), Cardinality(ArmOf(rows, rows[i].stratum, 0)))

\* n_treated / n_control of every row of a table
RatioColumn(rows) == AsSeq([k \in DOMAIN rows |-> Q(rows[k].n_treated, rows[k].n_control)])

\* sum(treated weights) / sum(control weights), the weights before rescaling
GlobalFactor(rows) ==
    ScalarDivide(SumWeight(rows, 1),
                 SumNums(RatioColumn(SelectSeq(rows, LAMBDA r : r.treated = 0)))).value

\* C3: every treated gene has cem_weight 1, every control gene has
\* (treated in its stratum / control in its stratum) times the one global
\* factor, and every weight is positive.
C3_Weights ==
    CemDone =>
        \A factor \in {GlobalFactor(matched_genes)} : \A i \in DOMAIN matched_genes :
            /\ matched_genes[i].treated = 1 => matched_genes[i].cem_weight = One
            /\ matched_genes[i].treated = 0 =>
                matched_genes[i].cem_weight = RMul(StratumRatio(matched_genes, i), factor)
            /\ ~IsNaN(matched_genes[i].cem_weight)
            /\ matched_genes[i].cem_weight[1] > 0

\* a control gene whose weight is not 1
C3_Witness ==
    /\ CemDone
    /\ \E i \in DOMAIN matched_genes :
        matched_genes[i].treated = 0 /\ matched_genes[i].cem_weight # One

\* the sum of the cem_weights of the rows idx of the matched set
RECURSIVE SumWeightsOf(_)
SumWeightsOf(idx) ==
    IF idx = {} THEN Zero
    ELSE RAdd(matched_genes[CHOOSE i \in idx : TRUE].cem_weight,
              SumWeightsOf(idx \ {CHOOSE i \in idx : TRUE}))

CodesOf(v) == Coarsen(Column(gene_features, match_vars[v]), n_bins)

\* C26: for every matching variable, genes with equal values have equal bin
\* codes, a gene with a larger value has no smaller code, every code is a
\* whole number from 0 to n_bins - 1, and a variable with one value gives one
\* code; genes equal in the five variables are in one stratum; nothing is raised
C26_CoarseningMonotone ==
    pc \in {"matched_genes", "raised"} =>
        /\ pc = "matched_genes"
        /\ \A v \in DOMAIN match_vars : \A codes \in {CodesOf(v)} :
            /\ \A i, j \in DOMAIN gene_features :
                /\ gene_features[i][match_vars[v]] = gene_features[j][match_vars[v]]
                        => codes[i] = codes[j]
                /\ NumLess(gene_features[i][match_vars[v]], gene_features[j][match_vars[v]])
                        => codes[i] <= codes[j]
            /\ \A i \in DOMAIN gene_features : codes[i] \in 0..(n_bins - 1)
        /\ \A strata \in {Strata(gene_features, n_bins)} :
            \A i, j \in DOMAIN gene_features :
                (\A v \in DOMAIN match_vars :
                    gene_features[i][match_vars[v]] = gene_features[j][match_vars[v]])
                    => strata[i] = strata[j]

\* a variable with three values in three bins, and a variable with one value
C26_Witness ==
    /\ CemDone
    /\ Cardinality(Range(CodesOf(1))) = 3
    /\ Cardinality(Range(Column(gene_features, match_vars[2]))) = 1
    /\ \E i, j \in DOMAIN gene_features :
        /\ NumLess(gene_features[i].pre_sd_papers, gene_features[j].pre_sd_papers)
        /\ CodesOf(5)[i] < CodesOf(5)[j]

\* C22: with mean papers 1, 1, 5, 5 in each arm, the other covariates constant
\* and 10 bins, all 8 genes are retained in exactly two strata (the genes of
\* mean 1 and the genes of mean 5), each of 2 treated and 2 control genes, and
\* every cem_weight is 1
C22_TwoStrata ==
    pc \in {"matched_genes", "raised"} =>
        /\ pc = "matched_genes"
        /\ Len(matched_genes) = ScenarioGenes
        /\ Cardinality({matched_genes[i].stratum : i \in DOMAIN matched_genes}) = 2
        /\ \A i \in DOMAIN matched_genes :
            /\ Cardinality(ArmOf(matched_genes, matched_genes[i].stratum, 1)) = 2
            /\ Cardinality(ArmOf(matched_genes, matched_genes[i].stratum, 0)) = 2
            /\ matched_genes[i].cem_weight = One
            /\ \A j \in DOMAIN matched_genes :
                    matched_genes[i].stratum = matched_genes[j].stratum
                        <=> matched_genes[i].pre_mean_papers = matched_genes[j].pre_mean_papers

\* the scenario matched, with the rows in the order treated 1,1,5,5 then
\* control 1,1,5,5
C22_Witness ==
    /\ CemDone
    /\ n_bins = N_QUANTILE_BINS
    /\ Len(matched_genes) = ScenarioGenes
    /\ \A g \in 1..ScenarioGenes :
        /\ gene_features[g].treated = (IF g <= 4 THEN 1 ELSE 0)
        /\ gene_features[g].pre_mean_papers = (IF (g - 1) % 4 < 2 THEN One ELSE Q(5, 1))

\* no stratum of the input holds both a treated and a control gene
NoCommonSupport(gf, q) ==
    \A strata \in {Strata(gf, q)} :
        \A i, j \in DOMAIN gf :
            ~(strata[i] = strata[j] /\ gf[i].treated = 1 /\ gf[j].treated = 0)

\* C7: when no stratum holds both arms, coarsened_exact_matching returns an
\* empty matched set and raises nothing.
C7_EmptyNotRaised ==
    (pc \in {"matched_genes", "raised"} /\ NoCommonSupport(gene_features, n_bins)) =>
        (pc = "matched_genes" /\ matched_genes = <<>>)

\* both arms are present, in different strata
C7_Witness ==
    /\ CemDone
    /\ matched_genes = <<>>
    /\ \E i, j \in DOMAIN gene_features :
        gene_features[i].treated = 1 /\ gene_features[j].treated = 0

---------------------------------------------------------------------------
(* Properties of compute_pre_treatment_features (SpecFeat) *)

\* C4: two panels that agree on every row before the treatment month and
\* differ in the outcome counts of a later row have the same pre-treatment
\* features (one changed row at a time; any difference is a chain of these).
C4_NoLookAhead ==
    pc = "alt_features" => alt_features = gene_features

\* the second panel differs in its treatment-month row of a gene that has
\* rows before the treatment month
C4_Witness ==
    /\ pc = "alt_features"
    /\ alt_panel # panel
    /\ \E i \in DOMAIN gene_features : \E k \in DOMAIN panel :
        /\ panel[k].gene_id = gene_features[i].gene_id
        /\ alt_panel[k] # panel[k]

FeatureRowsOf(g) == SelectSeq(gene_features, LAMBDA f : f.gene_id = g)

PreRowsOf(g) == SelectSeq(df, LAMBDA r : r.gene_id = g /\ r.ym_seq < treatment_seq)

AllFeaturesZero(f) ==
    /\ f.pre_mean_papers = Zero /\ f.pre_sd_papers = Zero /\ f.pre_mean_newcom = Zero
    /\ f.pre_mean_veteran = Zero /\ f.pre_mean_top10 = Zero

\* C5: compute_pre_treatment_features returns one row for every gene_id of
\* the panel; a gene with no row before the treatment month has all five
\* features 0, a gene with one such row has pre_sd_papers 0.
C5_OneRowPerGene ==
    pc = "features" =>
        \A g \in Range(GeneIds(df)) :
            /\ Len(FeatureRowsOf(g)) = 1
            /\ Len(PreRowsOf(g)) = 0 => AllFeaturesZero(FeatureRowsOf(g)[1])
            /\ Len(PreRowsOf(g)) = 1 => FeatureRowsOf(g)[1].pre_sd_papers = Zero

---------------------------------------------------------------------------
(* Properties of the two scripts on a monthly panel (Spec) *)

\* num_deposits of gene g in the input panel
DepositsOf(g) == panel[CHOOSE i \in DOMAIN panel : panel[i].gene_id = g].num_deposits

TreatedAsDeposits(frame) ==
    \A i \in DOMAIN frame :
        /\ frame[i].treated \in {0, 1}
        /\ frame[i].treated = 1 <=> DepositsOf(frame[i].gene_id) = 0

\* C6: in the monthly panel with time variables, the gene-feature table, the
\* matched gene set, the matched monthly panel and the semester panel, every
\* row of a gene has treated = 1 if and only if the gene's num_deposits is 0
C6_TreatedFixed ==
    /\ TreatedAsDeposits(df)
    /\ TreatedAsDeposits(gene_features)
    /\ TreatedAsDeposits(matched_genes)
    /\ TreatedAsDeposits(panel_matched)
    /\ TreatedAsDeposits(df_sem)

C6_Witness ==
    /\ pc = "delta"
    /\ \E i, j \in DOMAIN df_sem : df_sem[i].treated = 1 /\ df_sem[j].treated = 0
    /\ \E i \in DOMAIN gene_features :
        \A k \in DOMAIN matched_genes : matched_genes[k].gene_id # gene_features[i].gene_id

\* C8: every row of the matched monthly panel is of a gene of matched_genes
\* and has a cem_weight, a stratum and a treated value that are not missing
C8_MatchedRowsOnly ==
    pc \in {"panel_matched", "semester", "delta"} =>
        \A i \in DOMAIN panel_matched :
            /\ \E k \in DOMAIN matched_genes :
                    matched_genes[k].gene_id = panel_matched[i].gene_id
            /\ panel_matched[i].cem_weight # NaN
            /\ panel_matched[i].stratum # NullStratum
            /\ panel_matched[i].treated # NullInt

C8_Witness ==
    /\ pc = "panel_matched"
    /\ panel_matched # <<>>
    /\ Len(panel_matched) < Len(df)

\* the columns a row of the matched panel takes from matched_genes
WeightColumns == {"cem_weight", "stratum", "treated"}
PanelPart(r) == [c \in (DOMAIN r) \ WeightColumns |-> r[c]]

\* C28: for every gene of matched_genes the matched panel has the rows of the
\* input panel, each once and in the same order, with every column other than
\* cem_weight, stratum and treated unchanged, and these three are those of the
\* gene's row of matched_genes on every row of the gene
C28_MonthsKept ==
    pc \in {"panel_matched", "semester", "delta"} =>
        \A k \in DOMAIN matched_genes :
            \A rows \in {RowsOfGene(panel_matched, matched_genes[k].gene_id)} :
            \A before \in {RowsOfGene(df, matched_genes[k].gene_id)} :
                /\ Len(rows) = Len(before)
                /\ \A i \in DOMAIN rows :
                    /\ PanelPart(rows[i]) = PanelPart(before[i])
                    /\ \A c \in WeightColumns : rows[i][c] = matched_genes[k][c]
                /\ \A i, j \in DOMAIN rows : i # j => rows[i].ym # rows[j].ym

\* a matched gene with papers in some month and none in another, beside a
\* gene that is not matched
C28_Witness ==
    /\ pc = "panel_matched"
    /\ Len(panel_matched) < Len(df)
    /\ \E i, j \in DOMAIN panel_matched :
        /\ panel_matched[i].gene_id = panel_matched[j].gene_id
        /\ panel_matched[i].ym < panel_matched[j].ym
        /\ panel_matched[i].n_papers > 0
        /\ panel_matched[j].n_papers = 0

\* the monthly rows of the matched panel of gene g in semester sem
MonthsOf(g, sem) ==
    {i \in DOMAIN panel_matched :
        panel_matched[i].gene_id = g /\ panel_matched[i].semester = sem}

RECURSIVE SumOver(_, _, _)
SumOver(frame, idx, col) ==
    IF idx = {} THEN 0
    ELSE LET i == CHOOSE i \in idx : TRUE
         IN frame[i][col] + SumOver(frame, idx \ {i}, col)

SemesterRowAsClaimed(row, months) ==
    /\ months # {}
    /\ \A y \in Range(OUTCOMES) : row[y] = SumOver(panel_matched, months, y)
    /\ \A c \in {"treated", "cem_weight", "stratum", "num_deposits"} :
            row[c] = panel_matched[MinOf(months)][c]
    /\ row.post = 1 <=> \E i \in months : panel_matched[i].post = 1

\* C9: the semester panel has exactly one row for every (gene_id, semester)
\* that has a monthly row, and no other row; its outcome counts are the sums
\* over the monthly rows, its treated, cem_weight, stratum and num_deposits are
\* those of the first monthly row, and its post is 1 iff a monthly row has post 1
C9_SemesterRows ==
    pc = "semester" =>
        /\ \A i \in DOMAIN panel_matched :
                Cardinality({k \in DOMAIN df_sem :
                    /\ df_sem[k].gene_id = panel_matched[i].gene_id
                    /\ df_sem[k].semester = panel_matched[i].semester}) = 1
        /\ \A k \in DOMAIN df_sem :
                SemesterRowAsClaimed(df_sem[k], MonthsOf(df_sem[k].gene_id, df_sem[k].semester))

C9_Witness ==
    /\ pc = "semester"
    /\ \E k \in DOMAIN df_sem :
        /\ df_sem[k].n_papers = Busy.n_papers + Busy.n_papers
        /\ df_sem[k].post = 1
        /\ \E i \in MonthsOf(df_sem[k].gene_id, df_sem[k].semester) : panel_matched[i].post = 0
    /\ \E k, l \in DOMAIN df_sem :
        df_sem[k].gene_id = df_sem[l].gene_id /\ df_sem[k].semester # df_sem[l].semester

---------------------------------------------------------------------------
(* Properties of the semesters for any first month of the panel (SpecStart) *)

TimeDone == pc \in {"time_variables", "features", "matched_genes", "panel_matched",
                    "semester", "delta"}
SemesterDone == pc \in {"semester", "delta"}

\* the treatment month is the first month of a semester of the panel
Aligned == (treatment_seq - 1) % MONTHS_PER_SEMESTER = 0

\* no semester holds months before and months from the treatment month on:
\* rel_semester < 0 goes with ym_seq < treatment_seq and rel_semester >= 0 with
\* ym_seq >= treatment_seq, a semester row has post = 1 exactly when its
\* rel_semester >= 0, and the rows of the pre-treatment features are the rows
\* of the semesters with rel_semester < 0
NoMixedSemester ==
    /\ TimeDone =>
        /\ \A i \in DOMAIN df :
            /\ df[i].rel_semester < 0 => df[i].ym_seq < treatment_seq
            /\ df[i].rel_semester >= 0 => df[i].ym_seq >= treatment_seq
        /\ PreDf(df, treatment_seq) = SelectSeq(df, LAMBDA r : r.rel_semester < 0)
    /\ SemesterDone =>
        \A i \in DOMAIN df_sem : df_sem[i].post = 1 <=> df_sem[i].rel_semester >= 0

\* C29 as stated: for every first month of the panel no semester holds months
\* before and months from the treatment month on
C29_NoMixedSemester == NoMixedSemester

\* C29, amended: this holds when the treatment month is the first month of a
\* semester of the panel (TREATMENT_YM - ym_min is a multiple of 6); for every
\* first month a row with rel_semester < 0 is before the treatment month and a
\* row from the treatment month on has rel_semester >= 0, and otherwise the
\* semester with rel_semester = 0 also holds the (treatment_seq - 1) mod 6
\* months just before the treatment month
C29_NoMixedSemesterWhenAligned ==
    /\ Aligned => NoMixedSemester
    /\ TimeDone =>
        \A i \in DOMAIN df :
            /\ df[i].rel_semester < 0 => df[i].ym_seq < treatment_seq
            /\ df[i].ym_seq >= treatment_seq => df[i].rel_semester >= 0
            /\ (df[i].rel_semester >= 0 /\ df[i].ym_seq < treatment_seq) =>
                /\ df[i].rel_semester = 0
                /\ treatment_seq - df[i].ym_seq
                        <= (treatment_seq - 1) % MONTHS_PER_SEMESTER

\* a panel that starts two semesters before the treatment month, aggregated:
\* semester rows before and after the treatment
C29_Witness ==
    /\ SemesterDone
    /\ Aligned
    /\ \E i, j, k \in DOMAIN df_sem :
        /\ df_sem[i].rel_semester = -2
        /\ df_sem[j].rel_semester = -1
        /\ df_sem[k].rel_semester = 0 /\ df_sem[k].n_papers > 0

---------------------------------------------------------------------------
(* Properties of create_delta_variables (SpecDelta) *)

DName ==
    [n_papers |-> "D_n_papers", n_newcomer_papers |-> "D_n_newcomer_papers",
     n_veteran_papers |-> "D_n_veteran_papers", n_top10_y |-> "D_n_top10_y"]

\* the semester rows of the gene of row i
SemRowsOfGene(i) == {j \in DOMAIN df_sem : df_sem[j].gene_id = df_sem[i].gene_id}
EarlierRows(i) == {j \in SemRowsOfGene(i) : df_sem[j].semester < df_sem[i].semester}
LaterRows(i) == {j \in SemRowsOfGene(i) : df_sem[j].semester > df_sem[i].semester}

\* the row of the latest semester before that of row i
PrecedingRow(i) ==
    CHOOSE j \in EarlierRows(i) :
        \A l \in EarlierRows(i) : df_sem[l].semester <= df_sem[j].semester

RECURSIVE SumDeltas(_, _)
SumDeltas(idx, d) ==
    IF idx = {} THEN Zero
    ELSE LET i == CHOOSE i \in idx : TRUE
         IN RAdd(df_sem[i][d], SumDeltas(idx \ {i}, d))

\* C10: for every gene and outcome Y, D_Y is missing in the row of the gene's
\* first semester, is Y minus Y of the row of the preceding semester in every
\* other row, and the D_Y of the rows after the first add up to Y of the last
\* row minus Y of the first, whatever the order of the input rows
C10_DeltaTelescopes ==
    pc = "delta" =>
        \A i \in DOMAIN df_sem, y \in Range(OUTCOMES) :
            /\ EarlierRows(i) = {} => df_sem[i][DName[y]] = NaN
            /\ EarlierRows(i) # {} =>
                    df_sem[i][DName[y]] = Q(df_sem[i][y] - df_sem[PrecedingRow(i)][y], 1)
            /\ (EarlierRows(i) = {} /\ LaterRows(i) # {}) =>
                    \E last \in LaterRows(i) :
                        /\ LaterRows(last) = {}
                        /\ SumDeltas(LaterRows(i), DName[y]) = Q(df_sem[last][y] - df_sem[i][y], 1)

C10_Witness ==
    /\ pc = "delta"
    /\ \E i, j, k \in DOMAIN df_sem :
        /\ j \in LaterRows(i) /\ k \in LaterRows(j)
        /\ df_sem[j].D_n_papers = One
        /\ df_sem[k].D_n_papers = Q(-1, 1)
        /\ df_sem[i].D_n_papers = NaN

---------------------------------------------------------------------------
(* Properties of the semester script on a panel lacking a column (SpecCols) *)

RequiredColumns == Range(OUTCOMES) \cup {"cem_weight", "treated", "rel_semester"}

\* C20: a step that receives a panel lacking a required column fails; it
\* produces no output panel, so that a semester panel exists (with or without
\* its delta columns) only when the matched panel had every required column
C20_MissingColumnFails ==
    pc \in {"semester", "delta"} => RequiredColumns \subseteq Columns(panel_matched)

\* C21: aggregate_to_semester applied to its own output returns it: the same
\* rows in the same order, with the same columns and the same values, which
\* are those of the first aggregation of the matched panel
C21_AggregateIdempotent ==
    pc = "semester_again" => df_sem = AggregateToSemester(panel_matched)

\* a semester row that sums several months with papers has been aggregated again
C21_Witness ==
    /\ pc = "semester_again"
    /\ \E i \in DOMAIN df_sem :
        /\ df_sem[i].n_newcomer_papers = 2
        /\ Cardinality({j \in DOMAIN panel_matched :
                /\ panel_matched[j].gene_id = df_sem[i].gene_id
                /\ panel_matched[j].semester = df_sem[i].semester}) = 2
    /\ "cem_weight" \notin Columns(df_sem)

---------------------------------------------------------------------------
(* Properties of run_event_study_simple (SpecES) *)

EsTable == pc = "es_returned" /\ returned = "table"

\* the rows of the panel given to the estimator that are of period k and arm
\* t and have the outcome
ArmIndices(k, t) ==
    {i \in DOMAIN es_df :
        /\ es_df[i].rel_semester = k /\ es_df[i].treated = t
        /\ ValueOf(es_df[i], outcome) # NaN}

RECURSIVE WeightTotal(_)
WeightTotal(idx) ==
    IF idx = {} THEN Zero
    ELSE LET i == CHOOSE i \in idx : TRUE
         IN RAdd(es_df[i].cem_weight, WeightTotal(idx \ {i}))

RECURSIVE WeightedTotal(_)
WeightedTotal(idx) ==
    IF idx = {} THEN Zero
    ELSE LET i == CHOOSE i \in idx : TRUE
         IN RAdd(RMul(es_df[i].cem_weight, ValueOf(es_df[i], outcome)),
                 WeightedTotal(idx \ {i}))

WeightedMean(idx) == RDiv(WeightedTotal(idx), WeightTotal(idx))

\* weighted mean of the treated minus weighted mean of the control, period k
MeanGap(k) == RSub(WeightedMean(ArmIndices(k, 1)), WeightedMean(ArmIndices(k, 0)))

HasBothArms(k) == ArmIndices(k, 1) # {} /\ ArmIndices(k, 0) # {}

RowsOfPeriod(k) == {i \in DOMAIN results : results[i].period = k}

\* C11: in the table returned by run_event_study_simple the row of the base
\* period has coef, se, ci_low and ci_high equal to 0
C11_SimpleBaseRowZero ==
    EsTable =>
        \A i \in RowsOfPeriod(BASE_PERIOD) :
            /\ results[i].coef = Zero
            /\ results[i].se = Zero
            /\ results[i].ci_low = <<Zero, Zero>>
            /\ results[i].ci_high = <<Zero, Zero>>

\* C13: for every period k other than the base that has a treated and a
\* control row, coef is (weighted mean of the treated - weighted mean of the
\* control at k) - (the same difference at the base period); and the counts
\* 2, 2, 2, 6 against 2, 2, 2, 2 give the coefficients 0, 0, 0, 4
C13_PairwiseCoef ==
    EsTable =>
        /\ \A i \in DOMAIN results :
                results[i].period # BASE_PERIOD =>
                    results[i].coef = RSub(MeanGap(results[i].period), MeanGap(BASE_PERIOD))
        /\ \A i \in DOMAIN es_df :
                (es_df[i].rel_semester # BASE_PERIOD /\ HasBothArms(es_df[i].rel_semester))
                    => RowsOfPeriod(es_df[i].rel_semester) # {}
        /\ es_df = ScenarioPanel => Column(results, "coef") = <<Zero, Zero, Zero, Q(4, 1)>>

C13_Witness ==
    /\ EsTable
    /\ \E i \in DOMAIN results :
        /\ results[i].period # BASE_PERIOD
        /\ results[i].n_control = 2
        /\ results[i].coef = Q(4, 3)

\* C14: the table has a row for a period if and only if the period has a
\* treated and a control row with the outcome, and one row only
C14_ArmlessPeriodOmitted ==
    EsTable =>
        /\ \A i \in DOMAIN results : HasBothArms(results[i].period)
        /\ \A i \in DOMAIN es_df :
                HasBothArms(es_df[i].rel_semester)
                    => Cardinality(RowsOfPeriod(es_df[i].rel_semester)) = 1

C14_Witness ==
    /\ EsTable
    /\ \E i \in DOMAIN es_df :
        /\ ValueOf(es_df[i], outcome) # NaN
        /\ es_df[i].rel_semester # BASE_PERIOD
        /\ ~HasBothArms(es_df[i].rel_semester)
        /\ RowsOfPeriod(es_df[i].rel_semester) = {}
    /\ RowsOfPeriod(BASE_PERIOD) # {}

\* the weighted mean over the genes drawn, a gene drawn m times counted m times
RECURSIVE DrawnWeightTotal(_, _)
DrawnWeightTotal(rows, drawn) ==
    IF drawn = <<>> THEN Zero
    ELSE RAdd(SumNums(Column(RowsOfGene(rows, Head(drawn)), weight_col)),
              DrawnWeightTotal(rows, Tail(drawn)))

RECURSIVE DrawnWeightedTotal(_, _)
DrawnWeightedTotal(rows, drawn) ==
    IF drawn = <<>> THEN Zero
    ELSE RAdd(SumNums(WeightedValues(RowsOfGene(rows, Head(drawn)), outcome, weight_col)),
              DrawnWeightedTotal(rows, Tail(drawn)))

MultisetMean(rows, drawn) == RDiv(DrawnWeightedTotal(rows, drawn), DrawnWeightTotal(rows, drawn))

\* C15: the statistic of a bootstrap replicate is computed on the multiset of
\* the genes drawn: as many draws as the arm has genes, a gene drawn m times
\* counted m times in the weighted mean
C15_ReplicateOnMultiset ==
    (pc = "es_loop" /\ boot_coefs # <<>>) =>
        /\ Len(boot_genes.t) = Len(UniqueGenes(ArmRows(EsFrame, EsPeriod, 1)))
        /\ Len(boot_genes.c) = Len(UniqueGenes(ArmRows(EsFrame, EsPeriod, 0)))
        /\ boot_coefs[Len(boot_coefs)] =
                RSub(RSub(MultisetMean(ArmRows(EsFrame, EsPeriod, 1), boot_genes.t),
                          MultisetMean(ArmRows(EsFrame, EsPeriod, 0), boot_genes.c)),
                     MeanGap(BASE_PERIOD))

\* C30: run_event_study_simple returns None when the base period lacks a
\* treated or a control row with the outcome, whatever the other periods
\* have; when it returns a table the base period has both arms and the table
\* has the row of the base period, once
C30_BaseArmsDecide ==
    pc = "es_returned" =>
        /\ ~HasBothArms(BASE_PERIOD) => returned = "None"
        /\ returned = "table" =>
                /\ HasBothArms(BASE_PERIOD)
                /\ Cardinality(RowsOfPeriod(BASE_PERIOD)) = 1

C30_Witness ==
    /\ pc = "es_returned" /\ returned = "None"
    /\ ArmIndices(BASE_PERIOD, 1) # {} /\ ArmIndices(BASE_PERIOD, 0) = {}
    /\ \E i \in DOMAIN es_df :
        es_df[i].rel_semester # BASE_PERIOD /\ HasBothArms(es_df[i].rel_semester)

---------------------------------------------------------------------------
(* Properties of run_event_study_ols (SpecOLS) and of two calls (SpecTwice) *)

OlsTable == pc = "ols_returned" /\ returned = "table"

\* the periods of the rows that have the outcome
DataPeriods ==
    {es_df[i].rel_semester : i \in {j \in DOMAIN es_df : ValueOf(es_df[j], outcome) # NaN}}

BaseRowsZero ==
    \A i \in RowsOfPeriod(BASE_PERIOD) :
        /\ results[i].coef = Zero
        /\ results[i].se = Zero
        /\ results[i].ci_low = <<Zero, Zero>>
        /\ results[i].ci_high = <<Zero, Zero>>

\* C12 as stated: the table returned by run_event_study_ols has exactly one
\* row for every period of the rows that have the outcome, in ascending order
\* of period, and none for another period; the row of the base period is 0
C12_OlsRowsOfData ==
    OlsTable =>
        /\ Column(results, "period") = SetToSortedSeq(DataPeriods)
        /\ BaseRowsZero

\* C12 as amended: the table has exactly one row for every period of the rows
\* that have the outcome and for the base period, whether or not the base
\* period is among them, in ascending order of period, and none for another
\* period; the row of the base period is 0
C12_OlsRowsOfDataAndBase ==
    OlsTable =>
        /\ Column(results, "period") = SetToSortedSeq(DataPeriods \cup {BASE_PERIOD})
        /\ BaseRowsZero

C12_Witness ==
    /\ OlsTable
    /\ BASE_PERIOD \notin DataPeriods
    /\ Len(results) = 2
    /\ results[1].period = BASE_PERIOD /\ results[1].se = Zero

\* C16: a second call of an estimator on the same panel, outcome, weight column
\* and base period returns what the first call returned, and the panel is as
\* it was
C16_SecondCallAgrees ==
    (pc \in {"es_returned", "ols_returned"} /\ calls_left = 0) =>
        /\ first_call.returned = returned
        /\ first_call.results = results
        /\ first_call.df = es_df

\* C17: run_event_study_ols returns a table or None; it does not raise
C17_OlsNeverRaises ==
    pc = "ols_returned" => returned \in {"table", "None"}

C17_Witness ==
    /\ OlsTable
    /\ \E k \in DataPeriods : ~HasBothArms(k)
    /\ \E k \in DataPeriods : k # BASE_PERIOD /\ HasBothArms(k)

---------------------------------------------------------------------------
(* Properties of the estimators on a first-difference outcome (SpecFd) *)

\* row i of the panel is the first-semester row of its gene
IsFirstRow(i) ==
    \A j \in DOMAIN es_df :
        es_df[j].gene_id = es_df[i].gene_id => es_df[i].semester <= es_df[j].semester

\* the panel without the first-semester row of every gene
WithoutFirstRows ==
    AsSeq(SelectSeq([i \in DOMAIN es_df |-> <<i, es_df[i]>>] \o <<>>,
                    LAMBDA p : ~IsFirstRow(p[1])))

FdLaterRows == AsSeq([i \in DOMAIN WithoutFirstRows |-> WithoutFirstRows[i][2]])

\* the periods of which every row has a missing outcome
MissingPeriods ==
    {k \in Range(Periods(es_df)) :
        \A i \in DOMAIN es_df :
            es_df[i].rel_semester = k => ValueOf(es_df[i], outcome) = NaN}

\* what run_event_study_simple gives on a frame, the standard errors apart
SimpleReturns(frame) ==
    IF DropNa(frame, outcome) = <<>> \/ ~BothArms(DropNa(frame, outcome), BASE_PERIOD)
    THEN "None" ELSE "table"

SimplePeriods(frame) ==
    SelectSeq(Periods(DropNa(frame, outcome)),
              LAMBDA k : BothArms(DropNa(frame, outcome), k))

\* C23: the first-semester row of every gene has the outcome missing, and
\* each estimator returns on the panel what it returns on the panel without
\* these rows: the same periods, coefficients, arm sizes, bootstrap statistics
\* and (for the regression) the same demeaned design and outcome; a period of
\* which every row has a missing outcome has no row in the table, other than
\* the row of zeros the regression adds for the base period
C23_FirstRowsExcluded ==
    /\ \A i \in DOMAIN es_df : IsFirstRow(i) => ValueOf(es_df[i], outcome) = NaN
    /\ pc = "ols_returned" =>
            \A res \in {RunEventStudyOls(FdLaterRows, outcome, weight_col, BASE_PERIOD)} :
                returned = res.returned /\ results = res.results
    /\ pc = "es_returned" =>
            /\ returned = SimpleReturns(FdLaterRows)
            /\ returned = "table" =>
                /\ AsSeq([i \in DOMAIN results |-> results[i].period])
                        = SimplePeriods(FdLaterRows)
                /\ \A i \in DOMAIN results :
                    /\ results[i].coef = Coef(DropNa(FdLaterRows, outcome), outcome, weight_col,
                                              results[i].period, BASE_PERIOD)
                    /\ results[i].n_treated
                            = Len(ArmRows(DropNa(FdLaterRows, outcome), results[i].period, 1))
                    /\ results[i].n_control
                            = Len(ArmRows(DropNa(FdLaterRows, outcome), results[i].period, 0))
    /\ (pc = "es_loop" /\ boot_coefs # <<>> /\ DOMAIN boot_genes = {"t", "c"}) =>
            boot_coefs[Len(boot_coefs)]
                = BootCoef(DropNa(FdLaterRows, outcome), outcome, weight_col,
                           Periods(DropNa(FdLaterRows, outcome))[period_idx], BASE_PERIOD,
                           boot_genes.t, boot_genes.c)
    /\ (pc \in {"es_returned", "ols_returned"} /\ returned = "table") =>
            \A i \in DOMAIN results :
                results[i].period \in MissingPeriods =>
                    /\ pc = "ols_returned"
                    /\ results[i] = BaseRow(BASE_PERIOD)

\* each estimator returns a table for a panel that starts before the base
\* period, with a gene that enters one semester late
C23_Witness ==
    /\ pc \in {"es_returned", "ols_returned"}
    /\ returned = "table"
    /\ Len(results) >= 2
    /\ MissingPeriods # {}
    /\ BASE_PERIOD \notin MissingPeriods
    /\ \E i \in DOMAIN es_df :
        /\ IsFirstRow(i)
        /\ es_df[i].rel_semester \notin MissingPeriods

---------------------------------------------------------------------------
(* Properties of the batch run of 03_event_study.py (SpecBatch) *)

BatchEnded == pc = "batch_done"

\* the pairs of the two loops, and the key of pair k in the result set
PairIdxs == AsSeq([k \in 1..NumPairs |-> k])
KeyOf(k) == <<OutcomeOf(k), SpecOf(k)>>
StoredKeys == AsSeq([i \in DOMAIN all_results |-> all_results[i].key])

\* the variable of pair k is a column of the panel, and the panel has rows
\* with it and both arms among them in the base period: the estimator has a
\* table to return
HasVar(k) == VarOf(k) \in Columns(es_df)
HasTable(k) ==
    /\ HasVar(k)
    /\ DropNa(es_df, VarOf(k)) # <<>>
    /\ BothArms(DropNa(es_df, VarOf(k)), BASE_PERIOD)

KeysOf(ks) == AsSeq([i \in DOMAIN ks |-> KeyOf(ks[i])])

\* C19: the batch run stores a table for every pair whose variable is in the
\* panel and for which the estimator has a table to return, whatever pairs
\* failed before it, and the stored pairs are in the order of the outcomes and
\* of LEVELS, DY, DASINH; every stored table has the row of the base period
C19_FailureDoesNotBlock ==
    BatchEnded =>
        /\ StoredKeys = KeysOf(SelectSeq(PairIdxs, HasTable))
        /\ \A i \in DOMAIN all_results :
                \E j \in DOMAIN all_results[i].results :
                    all_results[i].results[j].period = BASE_PERIOD

\* a pair failed, a pair with a missing variable was skipped, and pairs after
\* both were stored
C19_Witness ==
    /\ BatchEnded
    /\ \E k, m, n \in 1..NumPairs :
        /\ HasVar(k) /\ ~HasTable(k)
        /\ ~HasVar(m)
        /\ k < n /\ m < n
        /\ \E i \in DOMAIN all_results : all_results[i].key = KeyOf(n)
    /\ \E i \in DOMAIN log : log[i][1] = "Failed to run"

\* the records printed for outcome y: from its "Outcome" line to the next
IsHeader(i) == log[i][1] = "Outcome"
HeaderOf(y) == CHOOSE i \in DOMAIN log : IsHeader(i) /\ log[i][2] = y
RecordsOf(y) ==
    {i \in DOMAIN log : /\ i > HeaderOf(y)
                        /\ \A j \in (HeaderOf(y) + 1)..i : ~IsHeader(j)}

\* the messages that name a period
PeriodMessages == {"No data in base period"}

FailureNamed(k) ==
    \E i \in RecordsOf(OutcomeOf(k)) :
        log[i][1] = "Failed to run" /\ log[i][2] = SpecOf(k)

PeriodNamed(k, p) ==
    \E i \in RecordsOf(OutcomeOf(k)) :
        log[i][1] \in PeriodMessages /\ log[i][2] = p

StoredPeriods(k) ==
    {r.period : r \in UNION {Range(e.results) : e \in {e \in Range(all_results) : e.key = KeyOf(k)}}}

\* C18: when the batch run has ended, every pair whose variable is in the
\* panel and that is not in the result set has a record naming it, and every
\* period of a stored pair's data that has no row in its table has a record
\* naming the period
C18_OmissionsAreRecorded ==
    BatchEnded =>
        \A k \in 1..NumPairs :
            /\ HasVar(k) /\ KeyOf(k) \notin Range(StoredKeys) => FailureNamed(k)
            /\ KeyOf(k) \in Range(StoredKeys) =>
                    \A p \in Range(Periods(DropNa(es_df, VarOf(k)))) :
                        p \in StoredPeriods(k) \/ PeriodNamed(k, p)

---------------------------------------------------------------------------
(* Properties of run_pipeline.py (SpecRun) *)

FullRun == pc \in {"run_loop", "step_returned", "run_summary", "run_done"} /\ ~StepRequested

\* C24: in a full run the steps that ran are 1, 2, ... in this order, every
\* step before a step that ran succeeded, so that nothing runs after a failed
\* step; a step that raised is recorded as failed and main goes on to its
\* summary: it ends with one summary line per step that ran
C24_StopsAtFirstFailure ==
    FullRun =>
        /\ \A i \in DOMAIN run_results :
                /\ run_results[i].step_num = i
                /\ i < Len(run_results) => run_results[i].success
        /\ pc = "step_returned" =>
                /\ step_idx = Len(run_results) + 1
                /\ \A i \in DOMAIN run_results : run_results[i].success
        /\ pc = "run_done" =>
                /\ Len(run_results) >= 1
                /\ \/ ~run_results[Len(run_results)].success
                   \/ Len(run_results) = (IF args.skip_doi THEN Len(steps) - 1 ELSE Len(steps))
                /\ \A i \in DOMAIN run_results :
                        \E j \in DOMAIN log :
                            log[j][1] = "Step" /\ log[j][2] = i

\* step 2 raised in a full run: steps 3 and 4 did not run and main ended
C24_Witness ==
    /\ FullRun /\ pc = "run_done"
    /\ Len(run_results) = 2
    /\ run_results[1].success /\ ~run_results[2].success
    /\ \E j \in DOMAIN log : log[j] = <<"failed", 2, "KeyError">>

---------------------------------------------------------------------------
(* Properties of the DOI time variables (SpecDoi) *)

\* C25: a DOI record of the analysis period and a row of the panel that are of
\* the same month ym have the same semester and the same rel_semester
C25_DoiTimeMatchesPanel ==
    pc = "doi_time_variables" =>
        \A i \in DOMAIN doi_df : \A j \in DOMAIN df :
            df[j].ym = doi_df[i].ym =>
                /\ df[j].semester = doi_df[i].semester
                /\ df[j].rel_semester = doi_df[i].rel_semester

====
